---------------------------- MODULE Spec2Model ----------------------------
(***************************************************************************)
(* A model of the graph editor and of its stepwise algorithm runs          *)
(* (src/src/App.js, component GraphEditor).                                *)
(*                                                                         *)
(* React state is modelled by one variable per useState cell.  A call      *)
(* setX(updater) applies the updater to the latest state; the updaters an  *)
(* event handler enqueues are applied in the order of the calls, and an    *)
(* updater that itself calls setX(step) has that step applied right after  *)
(* it.  One handler (a click, a timer expiry) is therefore one action.     *)
(* A pending setTimeout continuation is a token in `timers`; a Kruskal     *)
(* continuation also carries the DisjointSet object its closure holds.     *)
(***************************************************************************)
EXTENDS Integers, Sequences, FiniteSets, TLC

VARIABLES nodes, edges, isDirected, isWeighted, mode,
          edgeStart, directedEdgeMemory, nextNodeId, nextEdgeId, uniqueIds,
          bfs, dfs, tdfs, bf, dij, prim, kruskal,
          timers, kruskalTimers, thrown, alerted

\* the graph store: the useState cells and refs the editing handlers write;
\* uniqueIds counts the node identities issued so far (Date.now/Math.random, line 250)
graphVars == <<nodes, edges, isDirected, isWeighted,
               edgeStart, directedEdgeMemory, nextNodeId, nextEdgeId, uniqueIds>>
runVars == <<bfs, dfs, tdfs, bf, dij, prim, kruskal>>
vars == <<nodes, edges, isDirected, isWeighted, mode,
          edgeStart, directedEdgeMemory, nextNodeId, nextEdgeId, uniqueIds,
          bfs, dfs, tdfs, bf, dij, prim, kruskal,
          timers, kruskalTimers, thrown, alerted>>

(***************************************************************************)
(* Bounds of the model.                                                    *)
(***************************************************************************)
MaxNodes == 3
MaxEdges == 3
MaxTimers == 2
MaxUniqueIds == 2
MaxEdgeIds == 2
MaxRunEdgeIds == 1

(***************************************************************************)
(* Values of the program.  Infinity is a number larger than every path     *)
(* cost of a bounded graph, with Infinity + w = Infinity; null is -1, and  *)
(* node identities (uniqueId) are the positive integers.                   *)
(***************************************************************************)
Infinity == 1000000
Null == -1

Plus(a, b) == IF a = Infinity THEN Infinity ELSE a + b

Algs == {"bfs", "dfs", "tdfs", "bf", "dij", "prim"}

(***************************************************************************)
(* Sequence helpers: Array.prototype.filter, find, includes and the        *)
(* stable Array.prototype.sort with a comparator a.key - b.key.            *)
(***************************************************************************)
Range(s) == {s[i] : i \in DOMAIN s}

\* Op applied to the value of e: e is evaluated once, as a JavaScript const is
WithValue(e, Op(_)) == CHOOSE r \in {Op(x) : x \in {e}} : TRUE

\* s.filter(...) where keep is the set of indices that pass the test
FilterSeq(s, keep) ==
    LET k == keep \cap DOMAIN s
    IN [r \in 1..Cardinality(k) |->
            s[CHOOSE i \in k : Cardinality({j \in k : j < i}) = r - 1]]

\* s.sort((a, b) => key(a) - key(b)): stable, key[i] is the key of s[i]
SortByKey(s, key) ==
    [r \in 1..Len(s) |->
        s[CHOOSE i \in DOMAIN s :
            Cardinality({j \in DOMAIN s :
                            key[j] < key[i] \/ (key[j] = key[i] /\ j < i)}) = r - 1]]

\* the least index of s whose element is in the set hit, 0 when there is none
FirstIdx(s, hit) ==
    IF \E i \in DOMAIN s : s[i] \in hit
    THEN CHOOSE i \in DOMAIN s : s[i] \in hit /\ \A j \in 1..(i - 1) : s[j] \notin hit
    ELSE 0

(***************************************************************************)
(* The graph store: nodes {id, uniqueId} and edges {id, source, target,    *)
(* weight}; source and target are uniqueIds.                               *)
(***************************************************************************)
NodeIds == {nodes[i].uniqueId : i \in DOMAIN nodes}

\* nodes.find(n => n.id === id): the first node with that visible id
FindNodeById(id) ==
    LET i == FirstIdx(nodes, {n \in Range(nodes) : n.id = id})
    IN IF i = 0 THEN Null ELSE nodes[i].uniqueId

\* nodes.find(n => n.uniqueId === u).id
VisibleId(u) ==
    LET i == FirstIdx(nodes, {n \in Range(nodes) : n.uniqueId = u})
    IN nodes[i].id

\* nodes.find(n => n.uniqueId === u)?.id || 0
VisibleIdOrZero(u) ==
    IF u \in NodeIds THEN VisibleId(u) ELSE 0

\* the entries the edges.forEach of getAdjacencyList pushes, in order: for edge i
\* entry 2i-1 goes to the source's list and, when undirected, entry 2i to the target's
AdjEntries ==
    [h \in 1..(2 * Len(edges)) |->
        LET e == edges[(h + 1) \div 2]
        IN IF h % 2 = 1
           THEN [key |-> VisibleId(e.source), node |-> VisibleId(e.target), weight |-> e.weight]
           ELSE [key |-> VisibleId(e.target), node |-> VisibleId(e.source), weight |-> e.weight]]

\* the adjacency view, keyed by visible id (lines 494-527)
getAdjacencyList ==
    WithValue(AdjEntries, LAMBDA en :
        [id \in {nodes[i].id : i \in DOMAIN nodes} |->
            WithValue(FilterSeq(en, {h \in DOMAIN en :
                                        en[h].key = id /\ (h % 2 = 1 \/ ~isDirected)}),
                      LAMBDA l : [i \in DOMAIN l |-> [node |-> l[i].node, weight |-> l[i].weight]])])

\* edges.find(e => (e.source === u && e.target === v) ||
\*                 (!isDirected && e.source === v && e.target === u)), 0 if none
FindEdge(u, v) ==
    FirstIdx(edges, {e \in Range(edges) :
                        \/ e.source = u /\ e.target = v
                        \/ ~isDirected /\ e.source = v /\ e.target = u})

(***************************************************************************)
(* Graphs the editor can build: n nodes added in order, with Reset Counter *)
(* pressed after the first k of them (k = n: never), and edges added in    *)
(* lexicographic order of their endpoints.  In undirected mode add-edge    *)
(* rejects a pair that exists in either orientation.                       *)
(***************************************************************************)
IdPattern(n, k) == [i \in 1..n |-> [uniqueId |-> i, id |-> IF i <= k THEN i - 1 ELSE i - k - 1]]

Pairs(n) == {p \in (1..n) \X (1..n) : p[1] # p[2]}

EdgeSets(n, directed) ==
    {S \in SUBSET Pairs(n) :
        /\ Cardinality(S) <= MaxEdges
        /\ directed \/ \A p \in S : <<p[2], p[1]>> \notin S}

RECURSIVE PairSeq(_)
PairSeq(S) ==
    IF S = {} THEN <<>>
    ELSE LET p == CHOOSE x \in S : \A y \in S :
                      x[1] < y[1] \/ (x[1] = y[1] /\ x[2] <= y[2])
         IN <<p>> \o PairSeq(S \ {p})

EdgeSeq(S, w) ==
    LET ps == PairSeq(S)
    IN [i \in 1..Len(ps) |->
            [id |-> i - 1, source |-> ps[i][1], target |-> ps[i][2], weight |-> w[i]]]

(***************************************************************************)
(* Initial run states (the useState initial values, lines 26-130).         *)
(***************************************************************************)
NoMap == [u \in {} |-> Null]

BfsIdle ==
    [isRunning |-> FALSE, isPaused |-> FALSE, visitedNodes |-> {}, visitedEdges |-> {},
     queue |-> <<>>, currentNode |-> Null, sourceNode |-> Null,
     predecessors |-> NoMap, distances |-> NoMap]

DfsIdle ==
    [isRunning |-> FALSE, isPaused |-> FALSE, visitedNodes |-> {}, visitedEdges |-> {},
     stack |-> <<>>, currentNode |-> Null, sourceNode |-> Null,
     predecessors |-> NoMap, distances |-> NoMap]

TimedDfsIdle ==
    [isRunning |-> FALSE, isPaused |-> FALSE, visitedNodes |-> {}, visitedEdges |-> {},
     stack |-> <<>>, currentNode |-> Null, sourceNode |-> Null,
     predecessors |-> NoMap, distances |-> NoMap,
     startTimes |-> NoMap, finishTimes |-> NoMap, time |-> 0, hasBackEdge |-> FALSE,
     remainingNodes |-> {}]

BellmanFordIdle ==
    [isRunning |-> FALSE, isPaused |-> FALSE, visitedNodes |-> {}, visitedEdges |-> {},
     currentEdge |-> Null, sourceNode |-> Null,
     predecessors |-> NoMap, distances |-> NoMap,
     iteration |-> 0, edgeOrder |-> <<>>, hasNegativeCycle |-> FALSE, currentStep |-> 0,
     showShortestPaths |-> FALSE, anyChanges |-> FALSE]

DijkstraIdle ==
    [isRunning |-> FALSE, isPaused |-> FALSE, visitedNodes |-> {}, visitedEdges |-> {},
     currentNode |-> Null, sourceNode |-> Null,
     predecessors |-> NoMap, distances |-> NoMap,
     priorityQueue |-> <<>>, processedNodes |-> {}, relaxedEdges |-> {}]

PrimIdle ==
    [isRunning |-> FALSE, isPaused |-> FALSE, visitedNodes |-> {}, visitedEdges |-> {},
     currentNode |-> Null, sourceNode |-> Null,
     priorityQueue |-> <<>>, processedNodes |-> {}, currentEdge |-> Null,
     mstEdges |-> {}, totalWeight |-> 0, iterationCount |-> 0, error |-> "null"]

KruskalIdle ==
    [isRunning |-> FALSE, isPaused |-> FALSE, isComplete |-> FALSE,
     visitedEdges |-> {}, currentEdge |-> Null, mstEdges |-> {}, totalWeight |-> 0,
     edgesProcessed |-> 0, sortedEdges |-> <<>>, currentStep |-> 0,
     numComponents |-> 0, error |-> "null"]

\* the state after construction, with a graph of the given modes and weights
InitWith(directedSet, weightedSet, weightSet) ==
    /\ \E n \in 1..MaxNodes, k \in 1..MaxNodes, d \in directedSet :
          /\ k <= n
          /\ nodes = IdPattern(n, k)
          /\ nextNodeId = IF k < n THEN n - k ELSE n
          /\ uniqueIds = n
          /\ isDirected = d
          /\ \E S \in EdgeSets(n, d) :
                \E w \in [1..Cardinality(S) -> weightSet] : edges = EdgeSeq(S, w)
    /\ isWeighted \in weightedSet
    /\ nextEdgeId = Len(edges)
    /\ directedEdgeMemory =
          [id \in {edges[i].id : i \in DOMAIN edges} |->
              [source |-> edges[id + 1].source, target |-> edges[id + 1].target]]
    /\ edgeStart = Null
    /\ mode = "add_node"
    /\ bfs = BfsIdle
    /\ dfs = DfsIdle
    /\ tdfs = TimedDfsIdle
    /\ bf = BellmanFordIdle
    /\ dij = DijkstraIdle
    /\ prim = PrimIdle
    /\ kruskal = KruskalIdle
    /\ timers = [a \in Algs |-> 0]
    /\ kruskalTimers = <<>>
    /\ thrown = FALSE
    /\ alerted = "none"

(***************************************************************************)
(* Breadth-first search (lines 617-744).                                   *)
(***************************************************************************)
\* the neighbours of visible id cid as {uniqueId, visibleId} objects, lines 668-672
ResolvedNeighbors(cid) ==
    WithValue(getAdjacencyList[cid], LAMBDA adj :
        [i \in 1..Len(adj) |->
            [uniqueId |-> FindNodeById(adj[i].node), visibleId |-> adj[i].node,
             weight |-> adj[i].weight]])

\* unvisited neighbours sorted by visible id, lines 668-679
SortedUnvisited(cid, visited) ==
    WithValue(ResolvedNeighbors(cid), LAMBDA all :
    WithValue(FilterSeq(all, {i \in 1..Len(all) :
                                 all[i].uniqueId # Null /\ all[i].uniqueId \notin visited}),
              LAMBDA un :
    WithValue(SortByKey(un, [i \in 1..Len(un) |-> un[i].visibleId]), LAMBDA srt :
        [i \in 1..Len(srt) |-> srt[i].uniqueId])))

\* ids of the edges found for current -> each neighbour, lines 690-697
EdgesTo(current, nbrs) ==
    {edges[FindEdge(current, v)].id : v \in {x \in Range(nbrs) : FindEdge(current, x) # 0}}

\* the updater of runBFSStep, lines 657-708
BFSStep(prev) ==
    IF prev.queue = <<>> \/ prev.isPaused THEN prev
    ELSE WithValue(Head(prev.queue), LAMBDA currentNode :
         WithValue(SortedUnvisited(VisibleId(currentNode), prev.visitedNodes),
                   LAMBDA sortedNeighborIds :
            [prev EXCEPT
                !.queue = Tail(prev.queue) \o sortedNeighborIds,
                !.visitedNodes = prev.visitedNodes \cup Range(sortedNeighborIds),
                !.visitedEdges = prev.visitedEdges \cup EdgesTo(currentNode, sortedNeighborIds),
                !.currentNode = currentNode,
                !.predecessors = [u \in DOMAIN prev.predecessors |->
                                     IF u \in Range(sortedNeighborIds) THEN currentNode
                                     ELSE prev.predecessors[u]],
                !.distances = [u \in DOMAIN prev.distances |->
                                  IF u \in Range(sortedNeighborIds)
                                  THEN Plus(prev.distances[currentNode], 1)
                                  ELSE prev.distances[u]]]))

\* the state startBFS sets, lines 623-645
BFSInitState(prev, src) ==
    [prev EXCEPT
        !.isRunning = TRUE, !.isPaused = FALSE,
        !.visitedNodes = {src}, !.visitedEdges = {},
        !.queue = <<src>>, !.currentNode = src, !.sourceNode = src,
        !.predecessors = [u \in NodeIds |-> Null],
        !.distances = [u \in NodeIds |-> IF u = src THEN 0 ELSE Infinity]]

Schedule(a) == timers' = [timers EXCEPT ![a] = @ + 1]
Expire(a) == timers' = [timers EXCEPT ![a] = @ - 1]

\* the Start BFS button, lines 2702-2706
PressStartBFS ==
    /\ ~thrown /\ ~bfs.isRunning
    /\ mode' = "bfs"
    /\ alerted' = "Click a node to start BFS"
    /\ UNCHANGED <<graphVars, runVars, timers, kruskalTimers, thrown>>

\* a click on node i in mode 'bfs' (line 2246): startBFS(node.id), lines 617-648
ClickNodeBFS(i) ==
    /\ ~thrown /\ mode = "bfs"
    /\ ~bfs.isRunning
    /\ timers["bfs"] < MaxTimers
    /\ \E init \in {BFSInitState(bfs, FindNodeById(nodes[i].id))} : bfs' = BFSStep(init)
    /\ Schedule("bfs")
    /\ UNCHANGED <<graphVars, alerted, mode, dfs, tdfs, bf, dij, prim, kruskal, kruskalTimers, thrown>>

\* the setTimeout callback of runBFSStep, lines 710-719
TimerBFS ==
    /\ ~thrown /\ timers["bfs"] > 0
    /\ IF bfs.queue # <<>> /\ ~bfs.isPaused
       THEN bfs' = BFSStep(bfs) /\ UNCHANGED timers
       ELSE /\ bfs' = IF bfs.queue = <<>> THEN [bfs EXCEPT !.isRunning = FALSE] ELSE bfs
            /\ Expire("bfs")
    /\ UNCHANGED <<graphVars, alerted, mode, dfs, tdfs, bf, dij, prim, kruskal, kruskalTimers, thrown>>

\* a pause control whose resume only clears the flag: no step, no continuation
TogglePauseBFSFlagOnly ==
    /\ ~thrown /\ bfs.isRunning
    /\ bfs' = [bfs EXCEPT !.isPaused = ~bfs.isPaused]
    /\ UNCHANGED <<graphVars, alerted, mode, dfs, tdfs, bf, dij, prim, kruskal, timers,
                   kruskalTimers, thrown>>

\* togglePauseBFS, lines 722-730 (the button is enabled while isRunning, line 2713)
TogglePauseBFS ==
    /\ ~thrown /\ bfs.isRunning
    /\ \E newState \in {[bfs EXCEPT !.isPaused = ~bfs.isPaused]} :
          IF ~newState.isPaused /\ newState.queue # <<>>
          THEN /\ timers["bfs"] < MaxTimers
               /\ bfs' = BFSStep(newState)
               /\ Schedule("bfs")
          ELSE bfs' = newState /\ UNCHANGED timers
    /\ UNCHANGED <<graphVars, alerted, mode, dfs, tdfs, bf, dij, prim, kruskal, kruskalTimers, thrown>>

\* resetBFS, lines 732-744 (button enabled per line 2720)
ResetBFS ==
    /\ ~thrown /\ (bfs.isRunning \/ bfs.visitedNodes # {})
    /\ bfs' = BfsIdle
    /\ UNCHANGED <<graphVars, alerted, mode, dfs, tdfs, bf, dij, prim, kruskal, timers,
                   kruskalTimers, thrown>>

InitBFS == InitWith({TRUE, FALSE}, {FALSE}, {1})

NextBFS ==
    \/ PressStartBFS
    \/ \E i \in DOMAIN nodes : ClickNodeBFS(i)
    \/ TimerBFS
    \/ TogglePauseBFS
    \/ ResetBFS

SpecBFS == InitBFS /\ [][NextBFS]_vars

(***************************************************************************)
(* Depth-first search (lines 747-872).                                     *)
(***************************************************************************)
\* the updater of runDFSStep, lines 780-836
DFSStep(prev) ==
    IF prev.stack = <<>> \/ prev.isPaused THEN prev
    ELSE WithValue(prev.stack[Len(prev.stack)], LAMBDA currentNode :
         WithValue(SortedUnvisited(VisibleId(currentNode), prev.visitedNodes),
                   LAMBDA neighbors :
            IF Len(neighbors) > 0
            THEN LET nextNode == neighbors[1]
                 IN [prev EXCEPT
                        !.stack = Append(prev.stack, nextNode),
                        !.visitedNodes = prev.visitedNodes \cup {nextNode},
                        !.visitedEdges = prev.visitedEdges \cup EdgesTo(currentNode, <<nextNode>>),
                        !.currentNode = nextNode,
                        !.predecessors = [prev.predecessors EXCEPT ![nextNode] = currentNode],
                        !.distances = [prev.distances EXCEPT
                                          ![nextNode] = Plus(prev.distances[currentNode], 1)]]
            ELSE LET newStack == SubSeq(prev.stack, 1, Len(prev.stack) - 1)
                 IN [prev EXCEPT
                        !.stack = newStack,
                        !.currentNode = IF newStack = <<>> THEN Null
                                        ELSE newStack[Len(newStack)]]))

\* the state startDFS sets, lines 753-774
DFSInitState(prev, src) ==
    [prev EXCEPT
        !.isRunning = TRUE, !.isPaused = FALSE,
        !.visitedNodes = {src}, !.visitedEdges = {},
        !.stack = <<src>>, !.currentNode = src, !.sourceNode = src,
        !.predecessors = [u \in NodeIds |-> Null],
        !.distances = [u \in NodeIds |-> IF u = src THEN 0 ELSE Infinity]]

\* the Start DFS button, lines 2732-2736
PressStartDFS ==
    /\ ~thrown /\ ~dfs.isRunning
    /\ mode' = "dfs"
    /\ alerted' = "Click a node to start DFS"
    /\ UNCHANGED <<graphVars, runVars, timers, kruskalTimers, thrown>>

\* a click on node i in mode 'dfs' (line 2248): startDFS(node.id), lines 747-777
ClickNodeDFS(i) ==
    /\ ~thrown /\ mode = "dfs"
    /\ ~dfs.isRunning
    /\ timers["dfs"] < MaxTimers
    /\ \E init \in {DFSInitState(dfs, FindNodeById(nodes[i].id))} : dfs' = DFSStep(init)
    /\ Schedule("dfs")
    /\ UNCHANGED <<graphVars, alerted, mode, bfs, tdfs, bf, dij, prim, kruskal, kruskalTimers, thrown>>

\* the setTimeout callback of runDFSStep, lines 838-847
TimerDFS ==
    /\ ~thrown /\ timers["dfs"] > 0
    /\ IF dfs.stack # <<>> /\ ~dfs.isPaused
       THEN dfs' = DFSStep(dfs) /\ UNCHANGED timers
       ELSE /\ dfs' = IF dfs.stack = <<>> THEN [dfs EXCEPT !.isRunning = FALSE] ELSE dfs
            /\ Expire("dfs")
    /\ UNCHANGED <<graphVars, alerted, mode, bfs, tdfs, bf, dij, prim, kruskal, kruskalTimers, thrown>>

\* togglePauseDFS, lines 850-858 (button enabled while isRunning, line 2743)
TogglePauseDFS ==
    /\ ~thrown /\ dfs.isRunning
    /\ \E newState \in {[dfs EXCEPT !.isPaused = ~dfs.isPaused]} :
          IF ~newState.isPaused /\ newState.stack # <<>>
          THEN /\ timers["dfs"] < MaxTimers
               /\ dfs' = DFSStep(newState)
               /\ Schedule("dfs")
          ELSE dfs' = newState /\ UNCHANGED timers
    /\ UNCHANGED <<graphVars, alerted, mode, bfs, tdfs, bf, dij, prim, kruskal, kruskalTimers, thrown>>

\* resetDFS, lines 860-872 (button enabled per line 2750)
ResetDFS ==
    /\ ~thrown /\ (dfs.isRunning \/ dfs.visitedNodes # {})
    /\ dfs' = DfsIdle
    /\ UNCHANGED <<graphVars, alerted, mode, bfs, tdfs, bf, dij, prim, kruskal, timers,
                   kruskalTimers, thrown>>

InitDFS == InitWith({TRUE, FALSE}, {FALSE}, {1})

NextDFS ==
    \/ PressStartDFS
    \/ \E i \in DOMAIN nodes : ClickNodeDFS(i)
    \/ TimerDFS
    \/ TogglePauseDFS
    \/ ResetDFS

SpecDFS == InitDFS /\ [][NextDFS]_vars

(***************************************************************************)
(* Topological sort by timed DFS (lines 1003-1186, 2443-2468).             *)
(***************************************************************************)
\* the remaining node with the lowest visible id, lines 1048-1055; the Set keeps
\* the order of `nodes`, so equal visible ids fall to the earlier node
NextStartNode(remaining) ==
    CHOOSE u \in remaining :
        \A v \in remaining :
            VisibleId(u) < VisibleId(v) \/ (VisibleId(u) = VisibleId(v) /\ u <= v)

\* lines 1087-1096: some neighbour is visited, on the stack and not finished
FoundBackEdge(prev, allNeighbors) ==
    \/ prev.hasBackEdge
    \/ /\ isDirected
       /\ \E i \in DOMAIN allNeighbors :
             /\ allNeighbors[i].uniqueId \in prev.visitedNodes
             /\ allNeighbors[i].uniqueId \in Range(prev.stack)
             /\ allNeighbors[i].uniqueId \notin DOMAIN prev.finishTimes

\* a step whose restart from a remaining node leaves the clock as it is
TimedDFSStepSameClock(prev) ==
    IF prev.isPaused THEN prev
    ELSE IF prev.stack = <<>> /\ prev.remainingNodes # {}
    THEN LET nextStartNode == NextStartNode(prev.remainingNodes)
             newTime == prev.time
         IN [prev EXCEPT
                !.stack = <<nextStartNode>>,
                !.visitedNodes = prev.visitedNodes \cup {nextStartNode},
                !.currentNode = nextStartNode,
                !.startTimes = (nextStartNode :> newTime) @@ prev.startTimes,
                !.time = newTime,
                !.remainingNodes = prev.remainingNodes \ {nextStartNode}]
    ELSE IF prev.stack = <<>> THEN [prev EXCEPT !.isRunning = FALSE]
    ELSE WithValue(prev.stack[Len(prev.stack)], LAMBDA currentNode :
         WithValue(ResolvedNeighbors(VisibleId(currentNode)), LAMBDA allNeighbors :
         WithValue(SortedUnvisited(VisibleId(currentNode), prev.visitedNodes),
                   LAMBDA neighbors :
            IF Len(neighbors) > 0
            THEN LET nextNode == neighbors[1]
                     newTime == prev.time + 1
                 IN [prev EXCEPT
                        !.stack = Append(prev.stack, nextNode),
                        !.visitedNodes = prev.visitedNodes \cup {nextNode},
                        !.currentNode = nextNode,
                        !.startTimes = (nextNode :> newTime) @@ prev.startTimes,
                        !.time = newTime,
                        !.hasBackEdge = FoundBackEdge(prev, allNeighbors),
                        !.remainingNodes = prev.remainingNodes \ {nextNode}]
            ELSE LET newStack == SubSeq(prev.stack, 1, Len(prev.stack) - 1)
                     newTime == prev.time + 1
                 IN [prev EXCEPT
                        !.stack = newStack,
                        !.currentNode = IF newStack = <<>> THEN Null
                                        ELSE newStack[Len(newStack)],
                        !.finishTimes = (currentNode :> newTime) @@ prev.finishTimes,
                        !.time = newTime,
                        !.hasBackEdge = FoundBackEdge(prev, allNeighbors)])))


\* the updater of runTimedDFSStep, lines 1040-1131
TimedDFSStep(prev) ==
    IF prev.isPaused THEN prev
    ELSE IF prev.stack = <<>> /\ prev.remainingNodes # {}
    THEN LET nextStartNode == NextStartNode(prev.remainingNodes)
             newTime == prev.time + 1
         IN [prev EXCEPT
                !.stack = <<nextStartNode>>,
                !.visitedNodes = prev.visitedNodes \cup {nextStartNode},
                !.currentNode = nextStartNode,
                !.startTimes = (nextStartNode :> newTime) @@ prev.startTimes,
                !.time = newTime,
                !.remainingNodes = prev.remainingNodes \ {nextStartNode}]
    ELSE IF prev.stack = <<>> THEN [prev EXCEPT !.isRunning = FALSE]
    ELSE WithValue(prev.stack[Len(prev.stack)], LAMBDA currentNode :
         WithValue(ResolvedNeighbors(VisibleId(currentNode)), LAMBDA allNeighbors :
         WithValue(SortedUnvisited(VisibleId(currentNode), prev.visitedNodes),
                   LAMBDA neighbors :
            IF Len(neighbors) > 0
            THEN LET nextNode == neighbors[1]
                     newTime == prev.time + 1
                 IN [prev EXCEPT
                        !.stack = Append(prev.stack, nextNode),
                        !.visitedNodes = prev.visitedNodes \cup {nextNode},
                        !.currentNode = nextNode,
                        !.startTimes = (nextNode :> newTime) @@ prev.startTimes,
                        !.time = newTime,
                        !.hasBackEdge = FoundBackEdge(prev, allNeighbors),
                        !.remainingNodes = prev.remainingNodes \ {nextNode}]
            ELSE LET newStack == SubSeq(prev.stack, 1, Len(prev.stack) - 1)
                     newTime == prev.time + 1
                 IN [prev EXCEPT
                        !.stack = newStack,
                        !.currentNode = IF newStack = <<>> THEN Null
                                        ELSE newStack[Len(newStack)],
                        !.finishTimes = (currentNode :> newTime) @@ prev.finishTimes,
                        !.time = newTime,
                        !.hasBackEdge = FoundBackEdge(prev, allNeighbors)])))

\* the state startTimedDFS sets, lines 1009-1034
TimedDFSInitState(prev, src) ==
    [prev EXCEPT
        !.isRunning = TRUE, !.isPaused = FALSE,
        !.visitedNodes = {src}, !.visitedEdges = {},
        !.stack = <<src>>, !.currentNode = src, !.sourceNode = src,
        !.predecessors = [u \in NodeIds |-> Null],
        !.distances = [u \in NodeIds |-> IF u = src THEN 0 ELSE Infinity],
        !.startTimes = (src :> 1), !.finishTimes = NoMap,
        !.time = 1, !.hasBackEdge = FALSE,
        !.remainingNodes = NodeIds \ {src}]

\* the Start Topological Sort button, lines 2762-2766
PressStartTimedDFS ==
    /\ ~thrown /\ ~tdfs.isRunning
    /\ mode' = "timed_dfs"
    /\ alerted' = "Click a node to start Topological Sort"
    /\ UNCHANGED <<graphVars, runVars, timers, kruskalTimers, thrown>>

\* a click on node i in mode 'timed_dfs' (line 2250): startTimedDFS(node.id)
ClickNodeTimedDFS(i) ==
    /\ ~thrown /\ mode = "timed_dfs"
    /\ ~tdfs.isRunning
    /\ timers["tdfs"] < MaxTimers
    /\ \E init \in {TimedDFSInitState(tdfs, FindNodeById(nodes[i].id))} :
          tdfs' = TimedDFSStep(init)
    /\ Schedule("tdfs")
    /\ UNCHANGED <<graphVars, alerted, mode, bfs, dfs, bf, dij, prim, kruskal, kruskalTimers, thrown>>

\* the setTimeout callback of runTimedDFSStep, lines 1133-1142
TimerTimedDFS ==
    /\ ~thrown /\ timers["tdfs"] > 0
    /\ IF ~tdfs.isPaused /\ (tdfs.stack # <<>> \/ tdfs.remainingNodes # {})
       THEN tdfs' = TimedDFSStep(tdfs) /\ UNCHANGED timers
       ELSE /\ tdfs' = IF tdfs.stack = <<>> /\ tdfs.remainingNodes = {}
                       THEN [tdfs EXCEPT !.isRunning = FALSE] ELSE tdfs
            /\ Expire("tdfs")
    /\ UNCHANGED <<graphVars, alerted, mode, bfs, dfs, bf, dij, prim, kruskal, kruskalTimers, thrown>>

\* togglePauseTimedDFS, lines 1145-1153 (button enabled while isRunning, line 2773)
TogglePauseTimedDFS ==
    /\ ~thrown /\ tdfs.isRunning
    /\ \E newState \in {[tdfs EXCEPT !.isPaused = ~tdfs.isPaused]} :
          IF ~newState.isPaused /\ newState.stack # <<>>
          THEN /\ timers["tdfs"] < MaxTimers
               /\ tdfs' = TimedDFSStep(newState)
               /\ Schedule("tdfs")
          ELSE tdfs' = newState /\ UNCHANGED timers
    /\ UNCHANGED <<graphVars, alerted, mode, bfs, dfs, bf, dij, prim, kruskal, kruskalTimers, thrown>>

\* resetTimedDFS, lines 1155-1172 (button enabled per line 2780)
ResetTimedDFS ==
    /\ ~thrown /\ (tdfs.isRunning \/ tdfs.visitedNodes # {})
    /\ tdfs' = TimedDfsIdle
    /\ UNCHANGED <<graphVars, alerted, mode, bfs, dfs, bf, dij, prim, kruskal, timers,
                   kruskalTimers, thrown>>

\* getTopologicalSort, lines 1175-1186, as node identities: the keys of finishTimes
\* (in insertion order, which is by ascending time) sorted by descending time
TopologicalNodes(finishTimes) ==
    WithValue(SortByKey([i \in 1..Cardinality(DOMAIN finishTimes) |->
                            CHOOSE u \in DOMAIN finishTimes :
                                Cardinality({v \in DOMAIN finishTimes :
                                                finishTimes[v] < finishTimes[u]}) = i - 1],
                        [i \in 1..Cardinality(DOMAIN finishTimes) |-> i]),
              LAMBDA pairs :
        SortByKey(pairs, [i \in DOMAIN pairs |-> 0 - finishTimes[pairs[i]]]))

\* getTopologicalSort: the visible ids in that order
getTopologicalSort(finishTimes) ==
    WithValue(TopologicalNodes(finishTimes), LAMBDA ns :
        [i \in DOMAIN ns |-> VisibleId(ns[i])])

\* what the status panel reports once the run has stopped, lines 2443-2468
TopologicalReport ==
    IF ~(~tdfs.isRunning /\ tdfs.visitedNodes # {}) THEN [status |-> "none", order |-> <<>>]
    ELSE IF ~isDirected THEN [status |-> "not applicable", order |-> <<>>]
    ELSE IF tdfs.hasBackEdge THEN [status |-> "invalid", order |-> <<>>]
    ELSE [status |-> "valid", order |-> getTopologicalSort(tdfs.finishTimes)]

InitTimedDFS == InitWith({TRUE, FALSE}, {FALSE}, {1})

NextTimedDFS ==
    \/ PressStartTimedDFS
    \/ \E i \in DOMAIN nodes : ClickNodeTimedDFS(i)
    \/ TimerTimedDFS
    \/ TogglePauseTimedDFS
    \/ ResetTimedDFS

SpecTimedDFS == InitTimedDFS /\ [][NextTimedDFS]_vars

(***************************************************************************)
(* Bellman-Ford (lines 1188-1375).                                         *)
(***************************************************************************)
\* the edges sorted by (source visible id, target visible id), lines 1221-1233
SortedEdgesBF ==
    SortByKey(edges, [i \in DOMAIN edges |->
                        VisibleIdOrZero(edges[i].source) * (Len(nodes) + 1)
                            + VisibleIdOrZero(edges[i].target)])

\* the sorted edges repeated |V| - 1 times, lines 1217-1242
EdgeSequence ==
    WithValue(SortedEdgesBF, LAMBDA sortedEdges :
        [j \in 1..(Len(sortedEdges) * (Len(nodes) - 1)) |->
            sortedEdges[((j - 1) % Len(sortedEdges)) + 1]])

\* currentStep is a positive multiple of edges.length, line 1276
\* (with no edge the remainder is NaN and the test is false)
AtPassBoundary(prev) ==
    Len(edges) > 0 /\ prev.currentStep % Len(edges) = 0 /\ prev.currentStep > 0

\* the updater of runBellmanFordStep reads an edge that does not exist, lines 1304-1306
BellmanFordThrows(prev) ==
    /\ ~prev.isPaused
    /\ ~(AtPassBoundary(prev) /\ ~prev.anyChanges)
    /\ prev.iteration < Len(nodes)
    /\ prev.edgeOrder = <<>>

\* runBellmanFordStep without the early stop of lines 1277-1288
BellmanFordStepNoEarlyStop(prev) ==
    IF prev.isPaused THEN prev
    ELSE LET anyChanges == IF AtPassBoundary(prev) THEN FALSE ELSE prev.anyChanges
         IN IF prev.iteration >= Len(nodes)
            THEN [prev EXCEPT !.isRunning = FALSE, !.hasNegativeCycle = anyChanges,
                              !.currentEdge = Null, !.anyChanges = anyChanges]
            ELSE LET edge == prev.edgeOrder[(prev.currentStep % Len(prev.edgeOrder)) + 1]
                     newDistance == Plus(prev.distances[edge.source], edge.weight)
                     changed == newDistance < prev.distances[edge.target]
                     nextStep == prev.currentStep + 1
                 IN [prev EXCEPT
                        !.currentEdge = edge.id,
                        !.currentStep = nextStep,
                        !.iteration = (nextStep \div Len(prev.edgeOrder)) + 1,
                        !.distances = IF changed
                                      THEN [prev.distances EXCEPT ![edge.target] = newDistance]
                                      ELSE prev.distances,
                        !.predecessors = IF changed
                                         THEN [prev.predecessors EXCEPT
                                                  ![edge.target] = edge.source]
                                         ELSE prev.predecessors,
                        !.anyChanges = anyChanges \/ changed]

\* the updater of runBellmanFordStep, lines 1270-1334
BellmanFordStep(prev) ==
    IF prev.isPaused THEN prev
    ELSE IF AtPassBoundary(prev) /\ ~prev.anyChanges
    THEN [prev EXCEPT !.isRunning = FALSE, !.hasNegativeCycle = FALSE,
                      !.currentEdge = Null, !.showShortestPaths = TRUE]
    ELSE LET anyChanges == IF AtPassBoundary(prev) THEN FALSE ELSE prev.anyChanges
         IN IF prev.iteration >= Len(nodes)
            THEN [prev EXCEPT !.isRunning = FALSE, !.hasNegativeCycle = anyChanges,
                              !.currentEdge = Null, !.anyChanges = anyChanges]
            ELSE LET edge == prev.edgeOrder[(prev.currentStep % Len(prev.edgeOrder)) + 1]
                     newDistance == Plus(prev.distances[edge.source], edge.weight)
                     changed == newDistance < prev.distances[edge.target]
                     nextStep == prev.currentStep + 1
                 IN [prev EXCEPT
                        !.currentEdge = edge.id,
                        !.currentStep = nextStep,
                        !.iteration = (nextStep \div Len(prev.edgeOrder)) + 1,
                        !.distances = IF changed
                                      THEN [prev.distances EXCEPT ![edge.target] = newDistance]
                                      ELSE prev.distances,
                        !.predecessors = IF changed
                                         THEN [prev.predecessors EXCEPT
                                                  ![edge.target] = edge.source]
                                         ELSE prev.predecessors,
                        !.anyChanges = anyChanges \/ changed]

\* the state initializeBellmanFord sets, lines 1244-1264
BellmanFordInitState(prev, src) ==
    [prev EXCEPT
        !.isRunning = TRUE, !.isPaused = FALSE,
        !.visitedNodes = {src}, !.visitedEdges = {},
        !.currentEdge = Null, !.sourceNode = src,
        !.predecessors = [u \in NodeIds |-> Null],
        !.distances = [u \in NodeIds |-> IF u = src THEN 0 ELSE Infinity],
        !.iteration = 1, !.edgeOrder = EdgeSequence,
        !.hasNegativeCycle = FALSE, !.currentStep = 0, !.anyChanges = FALSE]

\* the step every chain link applies: the updater, or its exception
ApplyBellmanFordStep(prev) ==
    IF BellmanFordThrows(prev)
    THEN bf' = prev /\ thrown' = TRUE
    ELSE bf' = BellmanFordStep(prev) /\ thrown' = FALSE

\* startBellmanFord, lines 1188-1200 (button enabled per line 2793)
PressStartBellmanFord ==
    /\ ~thrown /\ ~bf.isRunning /\ Len(nodes) > 0
    /\ IF ~isDirected
       THEN /\ alerted' = "Bellman-Ford algorithm requires a directed graph. Please switch to directed mode before starting."
            /\ UNCHANGED mode
       ELSE /\ mode' = "bellman_ford"
            /\ alerted' = "Click a node to start Bellman-Ford algorithm"
    /\ UNCHANGED <<graphVars, runVars, timers, kruskalTimers, thrown>>

\* a click on node i in mode 'bellman_ford' (lines 2251-2253, 335-336):
\* initializeBellmanFord(node.id), lines 1202-1267
ClickNodeBellmanFord(i) ==
    /\ ~thrown /\ mode = "bellman_ford"
    /\ ~bfs.isRunning /\ ~dfs.isRunning /\ ~tdfs.isRunning
    /\ timers["bf"] < MaxTimers
    /\ \E init \in {BellmanFordInitState(bf, FindNodeById(nodes[i].id))} :
          ApplyBellmanFordStep(init)
    /\ Schedule("bf")
    /\ UNCHANGED <<graphVars, alerted, mode, bfs, dfs, tdfs, dij, prim, kruskal, kruskalTimers>>

\* the continuation of runBellmanFordStep after the delay, lines 1337-1346
TimerBellmanFord ==
    /\ ~thrown /\ timers["bf"] > 0
    /\ IF ~bf.isPaused /\ bf.isRunning
       THEN ApplyBellmanFordStep(bf) /\ UNCHANGED timers
       ELSE UNCHANGED <<bf, thrown>> /\ Expire("bf")
    /\ UNCHANGED <<graphVars, alerted, mode, bfs, dfs, tdfs, dij, prim, kruskal, kruskalTimers>>

\* togglePauseBellmanFord, lines 1349-1357 (button enabled while isRunning, line 2800)
TogglePauseBellmanFord ==
    /\ ~thrown /\ bf.isRunning
    /\ \E newState \in {[bf EXCEPT !.isPaused = ~bf.isPaused]} :
          IF ~newState.isPaused /\ newState.isRunning
          THEN /\ timers["bf"] < MaxTimers
               /\ ApplyBellmanFordStep(newState)
               /\ Schedule("bf")
          ELSE bf' = newState /\ UNCHANGED <<timers, thrown>>
    /\ UNCHANGED <<graphVars, alerted, mode, bfs, dfs, tdfs, dij, prim, kruskal, kruskalTimers>>

\* resetBellmanFord, lines 1359-1375 (button enabled per line 2807)
ResetBellmanFord ==
    /\ ~thrown /\ (bf.isRunning \/ bf.visitedNodes # {})
    /\ bf' = BellmanFordIdle
    /\ UNCHANGED <<graphVars, alerted, mode, bfs, dfs, tdfs, dij, prim, kruskal, timers,
                   kruskalTimers, thrown>>

InitBellmanFord == InitWith({TRUE, FALSE}, {TRUE}, {-1, 2})

NextBellmanFord ==
    \/ PressStartBellmanFord
    \/ \E i \in DOMAIN nodes : ClickNodeBellmanFord(i)
    \/ TimerBellmanFord
    \/ TogglePauseBellmanFord
    \/ ResetBellmanFord

SpecBellmanFord == InitBellmanFord /\ [][NextBellmanFord]_vars

(***************************************************************************)
(* Dijkstra (lines 1378-1563).  A queue entry is <<uniqueId, distance>>.   *)
(***************************************************************************)
\* prev.priorityQueue.sort(...) by distance, then visible id, lines 1440-1453
SortedQueue(pq) ==
    SortByKey(pq, [i \in DOMAIN pq |->
                      pq[i][2] * (Len(nodes) + 1) + VisibleIdOrZero(pq[i][1])])

\* the neighbour entries of currentNode sorted by visible id, each with the node
\* its id resolves to, the stored edge from currentNode to it (0 when none) and
\* the distance through currentNode, lines 1470-1499
NeighborEntries(prev, currentNode) ==
    WithValue(getAdjacencyList[VisibleId(currentNode)], LAMBDA neighbors :
    WithValue(SortByKey(neighbors, [i \in DOMAIN neighbors |-> neighbors[i].node]),
              LAMBDA sortedNeighbors :
        [i \in DOMAIN sortedNeighbors |->
            LET neighborUniqueId == FindNodeById(sortedNeighbors[i].node)
            IN [node |-> neighborUniqueId,
                edge |-> IF neighborUniqueId = Null THEN 0
                         ELSE FindEdge(currentNode, neighborUniqueId),
                newDistance |-> Plus(prev.distances[currentNode],
                                     sortedNeighbors[i].weight)]]))

\* the updater of runDijkstraStep, lines 1434-1520
DijkstraStep(prev) ==
    IF prev.isPaused \/ prev.priorityQueue = <<>> THEN prev
    ELSE WithValue(SortedQueue(prev.priorityQueue), LAMBDA sorted :
         LET currentNode == sorted[1][1]
             rest == Tail(sorted)
         IN IF currentNode \in prev.processedNodes
            THEN [prev EXCEPT !.priorityQueue = rest]
            ELSE WithValue(NeighborEntries(prev, currentNode), LAMBDA en :
                 LET newProcessedNodes == prev.processedNodes \cup {currentNode}
                     \* the entries that pass the tests of lines 1486 and 1494
                     seen == {i \in DOMAIN en :
                                /\ en[i].node # Null
                                /\ en[i].node \notin newProcessedNodes
                                /\ en[i].edge # 0}
                     \* the entries that relax their neighbour, line 1497
                     relaxed == {i \in seen :
                                   en[i].newDistance < prev.distances[en[i].node]}
                     \* the last entry that writes the distance of node v
                     last(v) == CHOOSE i \in relaxed :
                                   en[i].node = v /\ \A j \in relaxed :
                                                        en[j].node = v => j <= i
                     pushed == FilterSeq(en, relaxed)
                 IN [prev EXCEPT
                        !.currentNode = currentNode,
                        !.priorityQueue =
                            rest \o [i \in DOMAIN pushed |->
                                        <<pushed[i].node, pushed[i].newDistance>>],
                        !.distances =
                            [v \in DOMAIN prev.distances |->
                                IF \E i \in relaxed : en[i].node = v
                                THEN en[last(v)].newDistance ELSE prev.distances[v]],
                        !.predecessors =
                            [v \in DOMAIN prev.predecessors |->
                                IF \E i \in relaxed : en[i].node = v
                                THEN currentNode ELSE prev.predecessors[v]],
                        !.processedNodes = newProcessedNodes,
                        !.visitedEdges = prev.visitedEdges
                                            \cup {edges[en[i].edge].id : i \in seen},
                        !.relaxedEdges = prev.relaxedEdges
                                            \cup {edges[en[i].edge].id : i \in relaxed}]))

\* the state initializeDijkstra sets, lines 1413-1428
DijkstraInitState(prev, src) ==
    [prev EXCEPT
        !.isRunning = TRUE, !.isPaused = FALSE,
        !.visitedNodes = {src}, !.visitedEdges = {},
        !.currentNode = src, !.sourceNode = src,
        !.predecessors = [u \in NodeIds |-> Null],
        !.distances = [u \in NodeIds |-> IF u = src THEN 0 ELSE Infinity],
        !.priorityQueue = <<<<src, 0>>>>,
        !.processedNodes = {}, !.relaxedEdges = {}]

\* a start handler that looks at the direction of the graph only
PressStartDijkstraAnyWeights ==
    /\ ~thrown /\ ~dij.isRunning /\ Len(nodes) > 0
    /\ IF ~isDirected
       THEN /\ alerted' = "Dijkstra's algorithm requires a directed graph. Please switch to directed mode before starting."
            /\ UNCHANGED mode
       ELSE /\ mode' = "dijkstra"
            /\ alerted' = "Click a node to start Dijkstra's algorithm"
    /\ UNCHANGED <<graphVars, runVars, timers, kruskalTimers, thrown>>

\* startDijkstra, lines 1378-1397 (button enabled per line 2820)
PressStartDijkstra ==
    /\ ~thrown /\ ~dij.isRunning /\ Len(nodes) > 0
    /\ IF ~isDirected
       THEN /\ alerted' = "Dijkstra's algorithm requires a directed graph. Please switch to directed mode before starting."
            /\ UNCHANGED mode
       ELSE IF \E i \in DOMAIN edges : edges[i].weight < 0
       THEN /\ alerted' = "Dijkstra's algorithm cannot handle negative weights. Please use Bellman-Ford instead."
            /\ UNCHANGED mode
       ELSE /\ mode' = "dijkstra"
            /\ alerted' = "Click a node to start Dijkstra's algorithm"
    /\ UNCHANGED <<graphVars, runVars, timers, kruskalTimers, thrown>>

\* a click on node i in mode 'dijkstra' (lines 2251-2253, 337-338):
\* initializeDijkstra(node.id), lines 1399-1431
ClickNodeDijkstra(i) ==
    /\ ~thrown /\ mode = "dijkstra"
    /\ ~bfs.isRunning /\ ~dfs.isRunning /\ ~tdfs.isRunning
    /\ timers["dij"] < MaxTimers
    /\ \E init \in {DijkstraInitState(dij, FindNodeById(nodes[i].id))} :
          dij' = DijkstraStep(init)
    /\ Schedule("dij")
    /\ UNCHANGED <<graphVars, alerted, mode, bfs, dfs, tdfs, bf, prim, kruskal, kruskalTimers, thrown>>

\* the continuation of runDijkstraStep after the delay, lines 1523-1534
TimerDijkstra ==
    /\ ~thrown /\ timers["dij"] > 0
    /\ IF ~dij.isPaused /\ dij.priorityQueue # <<>>
       THEN dij' = DijkstraStep(dij) /\ UNCHANGED timers
       ELSE /\ dij' = IF dij.priorityQueue = <<>>
                      THEN [dij EXCEPT !.isRunning = FALSE] ELSE dij
            /\ Expire("dij")
    /\ UNCHANGED <<graphVars, alerted, mode, bfs, dfs, tdfs, bf, prim, kruskal, kruskalTimers, thrown>>

\* togglePauseDijkstra, lines 1537-1545 (button enabled while isRunning, line 2828)
TogglePauseDijkstra ==
    /\ ~thrown /\ dij.isRunning
    /\ \E newState \in {[dij EXCEPT !.isPaused = ~dij.isPaused]} :
          IF ~newState.isPaused /\ newState.priorityQueue # <<>>
          THEN /\ timers["dij"] < MaxTimers
               /\ dij' = DijkstraStep(newState)
               /\ Schedule("dij")
          ELSE dij' = newState /\ UNCHANGED timers
    /\ UNCHANGED <<graphVars, alerted, mode, bfs, dfs, tdfs, bf, prim, kruskal, kruskalTimers, thrown>>

\* resetDijkstra, lines 1547-1563 (button enabled per line 2835)
ResetDijkstra ==
    /\ ~thrown /\ (dij.isRunning \/ dij.visitedNodes # {})
    /\ dij' = DijkstraIdle
    /\ UNCHANGED <<graphVars, alerted, mode, bfs, dfs, tdfs, bf, prim, kruskal, timers,
                   kruskalTimers, thrown>>

InitDijkstra == InitWith({TRUE, FALSE}, {TRUE}, {0, 1, 2})

NextDijkstra ==
    \/ PressStartDijkstra
    \/ \E i \in DOMAIN nodes : ClickNodeDijkstra(i)
    \/ TimerDijkstra
    \/ TogglePauseDijkstra
    \/ ResetDijkstra

SpecDijkstra == InitDijkstra /\ [][NextDijkstra]_vars

(***************************************************************************)
(* Bellman-Ford and Dijkstra run side by side on the same graph.            *)
(***************************************************************************)
InitShortestPaths == InitWith({TRUE}, {TRUE}, {1, 2})

\* each algorithm is started from rest and driven by its timer chain; the two
\* runs share no state, so pausing or restarting one does not change the other
NextShortestPaths ==
    \/ PressStartBellmanFord
    \/ \E i \in DOMAIN nodes : ~bf.isRunning /\ ClickNodeBellmanFord(i)
    \/ TimerBellmanFord
    \/ PressStartDijkstra
    \/ \E i \in DOMAIN nodes : ~dij.isRunning /\ ClickNodeDijkstra(i)
    \/ TimerDijkstra

SpecShortestPaths == InitShortestPaths /\ [][NextShortestPaths]_vars

(***************************************************************************)
(* Prim (lines 1652-1879).  A queue entry is <<edge id, weight>>.          *)
(***************************************************************************)
\* edges.find(e => e.id === id) as an index of edges, 0 when there is none
EdgeById(id) == FirstIdx(edges, {e \in Range(edges) : e.id = id})

\* the adjacency entries of node u in the given order, each with the node its id
\* resolves to and the stored edge joining u to that node, lines 1674-1686, 1792-1806
FrontierEntries(u, entries) ==
    [i \in DOMAIN entries |->
        LET neighborUniqueId == FindNodeById(entries[i].node)
        IN [node |-> neighborUniqueId,
            edge |-> IF neighborUniqueId = Null THEN 0 ELSE FindEdge(u, neighborUniqueId),
            weight |-> entries[i].weight]]

\* the queue initializePrim builds from the source's adjacency entries, lines 1670-1687
InitialPriorityQueue(src) ==
    WithValue(FrontierEntries(src, getAdjacencyList[VisibleId(src)]), LAMBDA en :
    WithValue(FilterSeq(en, {i \in DOMAIN en : en[i].node # Null /\ en[i].edge # 0}),
              LAMBDA kept :
        [i \in DOMAIN kept |-> <<edges[kept[i].edge].id, kept[i].weight>>]))

\* the queue sorted by weight, then by the edge's (source id, target id), lines 1729-1754
SortedPrimQueue(pq) ==
    SortByKey(pq, [i \in DOMAIN pq |->
        LET e == edges[EdgeById(pq[i][1])]
        IN (pq[i][2] * (Len(nodes) + 1) + VisibleIdOrZero(e.source)) * (Len(nodes) + 1)
               + VisibleIdOrZero(e.target)])

\* the entries runPrimStep appends for the new node, lines 1788-1807
NewFrontier(newNode, newProcessedNodes, rest) ==
    WithValue(getAdjacencyList[VisibleId(newNode)], LAMBDA neighbors :
    WithValue(FrontierEntries(newNode,
                  SortByKey(neighbors, [i \in DOMAIN neighbors |-> neighbors[i].node])),
              LAMBDA en :
        LET valid == {i \in DOMAIN en :
                        /\ en[i].node # Null
                        /\ en[i].node \notin newProcessedNodes
                        /\ en[i].edge # 0}
            pushed == {i \in valid :
                         /\ \A q \in DOMAIN rest : rest[q][1] # edges[en[i].edge].id
                         /\ \A j \in valid : j < i => en[j].edge # en[i].edge}
            kept == FilterSeq(en, pushed)
        IN [i \in DOMAIN kept |-> <<edges[kept[i].edge].id, kept[i].weight>>]))

\* a step that never reports a disconnected graph when its queue runs empty
PrimStepSilent(prev) ==
    IF prev.isPaused THEN prev
    ELSE IF prev.priorityQueue = <<>>
    THEN [prev EXCEPT !.isRunning = FALSE]
    ELSE WithValue(SortedPrimQueue(prev.priorityQueue), LAMBDA sortedQueue :
         LET currentEdgeId == sortedQueue[1][1]
             weight == sortedQueue[1][2]
             currentEdge == edges[EdgeById(currentEdgeId)]
             sourceInMST == currentEdge.source \in prev.processedNodes
             targetInMST == currentEdge.target \in prev.processedNodes
             newNode == IF sourceInMST THEN currentEdge.target ELSE currentEdge.source
             newProcessedNodes == prev.processedNodes \cup {newNode}
         IN IF EdgeById(currentEdgeId) = 0 THEN prev
            ELSE IF sourceInMST /\ targetInMST
            THEN [prev EXCEPT !.priorityQueue = Tail(sortedQueue)]
            ELSE [prev EXCEPT
                    !.currentNode = newNode,
                    !.priorityQueue =
                        Tail(sortedQueue)
                            \o NewFrontier(newNode, newProcessedNodes, Tail(sortedQueue)),
                    !.processedNodes = newProcessedNodes,
                    !.visitedEdges = prev.visitedEdges \cup {currentEdgeId},
                    !.mstEdges = prev.mstEdges \cup {currentEdgeId},
                    !.totalWeight = prev.totalWeight + weight,
                    !.currentEdge = currentEdgeId,
                    !.iterationCount = prev.iterationCount + 1])

\* the updater of runPrimStep, lines 1710-1823
PrimStep(prev) ==
    IF prev.isPaused THEN prev
    ELSE IF prev.priorityQueue = <<>>
    THEN IF Cardinality(prev.processedNodes) < Len(nodes)
         THEN [prev EXCEPT !.isRunning = FALSE,
                           !.error = "Graph is disconnected. Cannot construct complete MST."]
         ELSE [prev EXCEPT !.isRunning = FALSE]
    ELSE WithValue(SortedPrimQueue(prev.priorityQueue), LAMBDA sortedQueue :
         LET currentEdgeId == sortedQueue[1][1]
             weight == sortedQueue[1][2]
             currentEdge == edges[EdgeById(currentEdgeId)]
             sourceInMST == currentEdge.source \in prev.processedNodes
             targetInMST == currentEdge.target \in prev.processedNodes
             newNode == IF sourceInMST THEN currentEdge.target ELSE currentEdge.source
             newProcessedNodes == prev.processedNodes \cup {newNode}
         IN IF EdgeById(currentEdgeId) = 0 THEN prev
            ELSE IF sourceInMST /\ targetInMST
            THEN [prev EXCEPT !.priorityQueue = Tail(sortedQueue)]
            ELSE [prev EXCEPT
                    !.currentNode = newNode,
                    !.priorityQueue =
                        Tail(sortedQueue)
                            \o NewFrontier(newNode, newProcessedNodes, Tail(sortedQueue)),
                    !.processedNodes = newProcessedNodes,
                    !.visitedEdges = prev.visitedEdges \cup {currentEdgeId},
                    !.mstEdges = prev.mstEdges \cup {currentEdgeId},
                    !.totalWeight = prev.totalWeight + weight,
                    !.currentEdge = currentEdgeId,
                    !.iterationCount = prev.iterationCount + 1])

\* the state initializePrim sets, lines 1689-1704
PrimInitState(prev, src) ==
    [prev EXCEPT
        !.isRunning = TRUE, !.isPaused = FALSE,
        !.visitedNodes = {src}, !.visitedEdges = {},
        !.currentNode = src, !.sourceNode = src,
        !.priorityQueue = InitialPriorityQueue(src),
        !.processedNodes = {src}, !.currentEdge = Null,
        !.mstEdges = {}, !.totalWeight = 0, !.iterationCount = 0, !.error = "null"]

\* startPrim, lines 1652-1664 (button enabled per line 2848)
PressStartPrim ==
    /\ ~thrown /\ ~prim.isRunning /\ isWeighted
    /\ IF ~isWeighted
       THEN /\ alerted' = "Prim's algorithm requires a weighted graph. Please switch to weighted mode before starting."
            /\ UNCHANGED mode
       ELSE /\ mode' = "prim"
            /\ alerted' = "Click a node to start Prim's algorithm"
    /\ UNCHANGED <<graphVars, runVars, timers, kruskalTimers, thrown>>

\* a click on node i in mode 'prim' (lines 2251-2253, 339-340):
\* initializePrim(node.id), lines 1666-1707
ClickNodePrim(i) ==
    /\ ~thrown /\ mode = "prim"
    /\ ~bfs.isRunning /\ ~dfs.isRunning /\ ~tdfs.isRunning
    /\ timers["prim"] < MaxTimers
    /\ \E init \in {PrimInitState(prim, FindNodeById(nodes[i].id))} :
          prim' = PrimStep(init)
    /\ Schedule("prim")
    /\ UNCHANGED <<graphVars, alerted, mode, bfs, dfs, tdfs, bf, dij, kruskal, kruskalTimers, thrown>>

\* the continuation of runPrimStep after the delay, lines 1840-1850
TimerPrim ==
    /\ ~thrown /\ timers["prim"] > 0
    /\ IF ~prim.isPaused /\ prim.isRunning /\ Cardinality(prim.processedNodes) < Len(nodes)
       THEN prim' = PrimStep(prim) /\ UNCHANGED timers
       ELSE /\ prim' = IF Cardinality(prim.processedNodes) = Len(nodes)
                       THEN [prim EXCEPT !.isRunning = FALSE] ELSE prim
            /\ Expire("prim")
    /\ UNCHANGED <<graphVars, alerted, mode, bfs, dfs, tdfs, bf, dij, kruskal, kruskalTimers, thrown>>

\* togglePausePrim, lines 1853-1861 (button enabled while isRunning, line 2856)
TogglePausePrim ==
    /\ ~thrown /\ prim.isRunning
    /\ \E newState \in {[prim EXCEPT !.isPaused = ~prim.isPaused]} :
          IF ~newState.isPaused /\ newState.priorityQueue # <<>>
          THEN /\ timers["prim"] < MaxTimers
               /\ prim' = PrimStep(newState)
               /\ Schedule("prim")
          ELSE prim' = newState /\ UNCHANGED timers
    /\ UNCHANGED <<graphVars, alerted, mode, bfs, dfs, tdfs, bf, dij, kruskal, kruskalTimers, thrown>>

\* resetPrim, lines 1863-1879 (button enabled per line 2863)
ResetPrim ==
    /\ ~thrown /\ (prim.isRunning \/ prim.visitedNodes # {})
    /\ prim' = PrimIdle
    /\ UNCHANGED <<graphVars, alerted, mode, bfs, dfs, tdfs, bf, dij, kruskal, timers,
                   kruskalTimers, thrown>>

InitPrim == InitWith({TRUE, FALSE}, {TRUE, FALSE}, {1, 2})

NextPrim ==
    \/ PressStartPrim
    \/ \E i \in DOMAIN nodes : ClickNodePrim(i)
    \/ TimerPrim
    \/ TogglePausePrim
    \/ ResetPrim

SpecPrim == InitPrim /\ [][NextPrim]_vars

(***************************************************************************)
(* DisjointSet (lines 133-205): parent and rank maps over the uniqueIds.   *)
(***************************************************************************)
RECURSIVE DsuRoot(_, _)
\* the representative find(x) returns
DsuRoot(parent, x) == IF parent[x] = x THEN x ELSE DsuRoot(parent, parent[x])

RECURSIVE DsuPath(_, _)
\* the nodes find(x) visits below the root
DsuPath(parent, x) == IF parent[x] = x THEN {} ELSE {x} \cup DsuPath(parent, parent[x])

\* new DisjointSet(), lines 134-137: keys is the insertion order of the parent Map
DsuEmpty == [parent |-> <<>>, rank |-> <<>>, keys |-> <<>>]

\* the set after makeSet(x), lines 139-142: Map.set keeps the place of a key
\* that is already there
DsuMakeSet(d, x) ==
    [parent |-> (x :> x) @@ d.parent,
     rank   |-> (x :> 0) @@ d.rank,
     keys   |-> IF x \in DOMAIN d.parent THEN d.keys ELSE Append(d.keys, x)]

\* makeSet for every node, lines 139-142 and 1897
DsuMakeSets ==
    [parent |-> [u \in NodeIds |-> u], rank |-> [u \in NodeIds |-> 0],
     keys   |-> [i \in DOMAIN nodes |-> nodes[i].uniqueId]]

\* the set after find(x): the path of x is compressed onto the root, lines 144-152
DsuFind(d, x) ==
    WithValue(IF x \in DOMAIN d.parent THEN d ELSE DsuMakeSet(d, x), LAMBDA d0 :
    WithValue(DsuRoot(d0.parent, x), LAMBDA root :
    WithValue(DsuPath(d0.parent, x), LAMBDA path :
        [d0 EXCEPT !.parent = [u \in DOMAIN d0.parent |->
                                  IF u \in path THEN root ELSE d0.parent[u]]])))

\* union(x, y) linking y itself, not its root, under the root of x
DsuUnionUnrooted(d, x, y) ==
    WithValue(DsuFind(d, x), LAMBDA d1 :
    WithValue(DsuFind(d1, y), LAMBDA d2 :
        LET rootX == DsuRoot(d2.parent, x)
            rootY == DsuRoot(d2.parent, y)
        IN IF rootX = rootY THEN d2
           ELSE [d2 EXCEPT !.parent[y] = rootX]))

\* the set after union(x, y), lines 154-171
DsuUnion(d, x, y) ==
    WithValue(DsuFind(d, x), LAMBDA d1 :
    WithValue(DsuFind(d1, y), LAMBDA d2 :
        LET rootX == DsuRoot(d2.parent, x)
            rootY == DsuRoot(d2.parent, y)
        IN IF rootX = rootY THEN d2
           ELSE IF d2.rank[rootX] < d2.rank[rootY]
           THEN [d2 EXCEPT !.parent[rootX] = rootY]
           ELSE IF d2.rank[rootX] > d2.rank[rootY]
           THEN [d2 EXCEPT !.parent[rootY] = rootX]
           ELSE [d2 EXCEPT !.parent[rootY] = rootX,
                           !.rank[rootX] = d2.rank[rootX] + 1]))

\* the value union(x, y) returns, lines 154-171: true when the roots differ
DsuUnionResult(d, x, y) ==
    WithValue(DsuFind(DsuFind(d, x), y), LAMBDA d2 :
        DsuRoot(d2.parent, x) # DsuRoot(d2.parent, y))

\* the answer of inSameSet(x, y), lines 173-175
DsuInSameSet(d, x, y) == DsuRoot(d.parent, x) = DsuRoot(d.parent, y)

\* the set after inSameSet(x, y): both finds compress, lines 173-175
DsuAfterInSameSet(d, x, y) == DsuFind(DsuFind(d, x), y)

\* the value inSameSet(x, y) returns: the second find runs on the set the
\* first one left, lines 173-175
DsuInSameSetResult(d, x, y) ==
    WithValue(DsuFind(d, x), LAMBDA d1 :
    WithValue(DsuFind(d1, y), LAMBDA d2 :
        DsuRoot(d1.parent, x) = DsuRoot(d2.parent, y)))

\* the set after getComponents: every find compresses, lines 177-204
DsuAfterGetComponents(d) ==
    [d EXCEPT !.parent = [u \in DOMAIN d.parent |-> DsuRoot(d.parent, u)]]

\* numComponents of getComponents, lines 183-190
DsuNumComponents(d) == Cardinality({DsuRoot(d.parent, u) : u \in DOMAIN d.parent})

\* nodeToComponent of getComponents, lines 183-196: the roots are numbered
\* from 0 in the order the keys of the parent Map first reach them
DsuNodeToComponent(d) ==
    LET rootAt(i) == DsuRoot(d.parent, d.keys[i])
        firstAt(r) == CHOOSE i \in DOMAIN d.keys :
                          /\ rootAt(i) = r
                          /\ \A j \in DOMAIN d.keys : rootAt(j) = r => i <= j
        roots == {rootAt(i) : i \in DOMAIN d.keys}
        number(r) == Cardinality({q \in roots : firstAt(q) < firstAt(r)})
    IN [x \in DOMAIN d.parent |-> number(DsuRoot(d.parent, x))]

RECURSIVE DsuUnionAll(_, _, _)
\* union over the edges es[i], es[i+1], ... in order, lines 2013-2018
DsuUnionAll(d, es, i) ==
    IF i > Len(es) THEN d
    ELSE WithValue(DsuUnion(d, es[i].source, es[i].target), LAMBDA d2 :
            DsuUnionAll(d2, es, i + 1))

(***************************************************************************)
(* Kruskal (lines 1881-2043).  Every chain of continuations holds its own  *)
(* DisjointSet object: kruskalTimers has one entry per pending timer.      *)
(***************************************************************************)
\* the edges sorted by weight, then by (smaller id, larger id), lines 1900-1922
SortedEdgesKruskal ==
    SortByKey(edges, [i \in DOMAIN edges |->
        LET s == VisibleIdOrZero(edges[i].source)
            g == VisibleIdOrZero(edges[i].target)
            minId == IF s <= g THEN s ELSE g
            maxId == IF s <= g THEN g ELSE s
        IN (edges[i].weight * (Len(nodes) + 1) + minId) * (Len(nodes) + 1) + maxId])

\* the updater of runKruskalStep and the set object it leaves, lines 1949-1982
KruskalStep(prev, dsu) ==
    IF prev.isPaused \/ prev.currentStep >= Len(prev.sortedEdges)
    THEN [state |-> prev, dsu |-> dsu]
    ELSE WithValue(prev.sortedEdges[prev.currentStep + 1], LAMBDA currentEdge :
         WithValue(DsuFind(DsuFind(dsu, currentEdge.source), currentEdge.target),
                   LAMBDA found :
         WithValue(DsuInSameSet(found, currentEdge.source, currentEdge.target),
                   LAMBDA wouldCreateCycle :
         WithValue(DsuAfterGetComponents(
                       IF wouldCreateCycle THEN found
                       ELSE DsuUnion(found, currentEdge.source, currentEdge.target)),
                   LAMBDA after :
            [state |->
                [prev EXCEPT
                    !.currentEdge = currentEdge.id,
                    !.visitedEdges = prev.visitedEdges \cup {currentEdge.id},
                    !.mstEdges = IF wouldCreateCycle THEN prev.mstEdges
                                 ELSE prev.mstEdges \cup {currentEdge.id},
                    !.totalWeight = IF wouldCreateCycle THEN prev.totalWeight
                                    ELSE prev.totalWeight + currentEdge.weight,
                    !.edgesProcessed = prev.edgesProcessed + 1,
                    !.currentStep = prev.currentStep + 1,
                    !.numComponents = DsuNumComponents(after)],
             dsu |-> after]))))

\* the state startKruskal sets, lines 1927-1943
KruskalInitState(prev) ==
    [prev EXCEPT
        !.isRunning = TRUE, !.isPaused = FALSE, !.isComplete = FALSE,
        !.visitedEdges = {}, !.currentEdge = Null, !.mstEdges = {},
        !.totalWeight = 0, !.edgesProcessed = 0,
        !.sortedEdges = SortedEdgesKruskal, !.currentStep = 0,
        !.numComponents = DsuNumComponents(DsuMakeSets), !.error = "null"]

\* the set togglePauseKruskal rebuilds from mstEdges, in insertion order, lines 2010-2018
RebuiltDsu(state) ==
    WithValue(FilterSeq(state.sortedEdges,
                        {i \in DOMAIN state.sortedEdges :
                            /\ state.sortedEdges[i].id \in state.mstEdges
                            /\ EdgeById(state.sortedEdges[i].id) # 0}),
              LAMBDA es : DsuUnionAll(DsuMakeSets, es, 1))

\* startKruskal, lines 1881-1946 (button enabled per line 2876)
PressStartKruskal ==
    /\ ~thrown /\ ~kruskal.isRunning /\ isWeighted
    /\ IF ~isWeighted
       THEN /\ alerted' = "Kruskal's algorithm requires a weighted graph. Please switch to weighted mode before starting."
            /\ UNCHANGED <<kruskal, kruskalTimers>>
       ELSE IF isDirected
       THEN /\ alerted' = "Kruskal's algorithm requires an undirected graph. Please switch to undirected mode before starting."
            /\ UNCHANGED <<kruskal, kruskalTimers>>
       ELSE /\ Len(kruskalTimers) < MaxTimers
            /\ \E r \in {KruskalStep(KruskalInitState(kruskal), DsuMakeSets)} :
                  /\ kruskal' = r.state
                  /\ kruskalTimers' = Append(kruskalTimers, r.dsu)
            /\ UNCHANGED alerted
    /\ UNCHANGED <<graphVars, mode, bfs, dfs, tdfs, bf, dij, prim, timers, thrown>>

\* a continuation that does not look at isPaused before stepping
TimerKruskalIgnoringPause(k) ==
    /\ ~thrown
    /\ IF kruskal.currentStep < Len(kruskal.sortedEdges)
       THEN \E r \in {KruskalStep([kruskal EXCEPT !.isPaused = FALSE], kruskalTimers[k])} :
               /\ kruskal' = [r.state EXCEPT !.isPaused = kruskal.isPaused]
               /\ kruskalTimers' = [kruskalTimers EXCEPT ![k] = r.dsu]
       ELSE /\ kruskal' = [kruskal EXCEPT
                             !.isRunning = FALSE, !.isComplete = TRUE,
                             !.error = IF kruskal.numComponents = 1 THEN "null"
                                       ELSE "Graph is disconnected. Forest of MSTs generated."]
            /\ kruskalTimers' = FilterSeq(kruskalTimers, DOMAIN kruskalTimers \ {k})
    /\ UNCHANGED <<graphVars, alerted, mode, bfs, dfs, tdfs, bf, dij, prim, timers, thrown>>

\* the continuation of runKruskalStep(dsu) after the delay, lines 1988-2003
TimerKruskal(k) ==
    /\ ~thrown
    /\ IF ~kruskal.isPaused /\ kruskal.currentStep < Len(kruskal.sortedEdges)
       THEN \E r \in {KruskalStep(kruskal, kruskalTimers[k])} :
               /\ kruskal' = r.state
               /\ kruskalTimers' = [kruskalTimers EXCEPT ![k] = r.dsu]
       ELSE /\ kruskal' =
                 IF kruskal.currentStep >= Len(kruskal.sortedEdges)
                 THEN [kruskal EXCEPT
                         !.isRunning = FALSE, !.isComplete = TRUE,
                         !.error = IF kruskal.numComponents = 1 THEN "null"
                                   ELSE "Graph is disconnected. Forest of MSTs generated."]
                 ELSE kruskal
            /\ kruskalTimers' = FilterSeq(kruskalTimers, DOMAIN kruskalTimers \ {k})
    /\ UNCHANGED <<graphVars, alerted, mode, bfs, dfs, tdfs, bf, dij, prim, timers, thrown>>

\* togglePauseKruskal, lines 2006-2023 (button enabled while isRunning, line 2884)
TogglePauseKruskal ==
    /\ ~thrown /\ kruskal.isRunning
    /\ \E newState \in {[kruskal EXCEPT !.isPaused = ~kruskal.isPaused]} :
          IF ~newState.isPaused /\ newState.currentStep < Len(newState.sortedEdges)
          THEN /\ Len(kruskalTimers) < MaxTimers
               /\ \E r \in {KruskalStep(newState, RebuiltDsu(newState))} :
                     /\ kruskal' = r.state
                     /\ kruskalTimers' = Append(kruskalTimers, r.dsu)
          ELSE kruskal' = newState /\ UNCHANGED kruskalTimers
    /\ UNCHANGED <<graphVars, alerted, mode, bfs, dfs, tdfs, bf, dij, prim, timers, thrown>>

\* resetKruskal, lines 2025-2043 (button enabled per line 2891)
ResetKruskal ==
    /\ ~thrown /\ (kruskal.isRunning \/ kruskal.isComplete)
    /\ kruskal' = KruskalIdle
    /\ UNCHANGED <<graphVars, alerted, mode, bfs, dfs, tdfs, bf, dij, prim, timers,
                   kruskalTimers, thrown>>

InitKruskal == InitWith({TRUE, FALSE}, {TRUE, FALSE}, {1, 2})

NextKruskal ==
    \/ PressStartKruskal
    \/ \E k \in DOMAIN kruskalTimers : TimerKruskal(k)
    \/ TogglePauseKruskal
    \/ ResetKruskal

SpecKruskal == InitKruskal /\ [][NextKruskal]_vars

(***************************************************************************)
(* Prim and Kruskal run side by side on the same graph.                    *)
(***************************************************************************)
InitSpanningTrees == InitWith({FALSE}, {TRUE}, {1, 2})

\* each algorithm is started from rest and driven by its timer chain; the two
\* runs share no state, so pausing or restarting one does not change the other
NextSpanningTrees ==
    \/ PressStartPrim
    \/ \E i \in DOMAIN nodes : ~prim.isRunning /\ ClickNodePrim(i)
    \/ TimerPrim
    \/ PressStartKruskal
    \/ \E k \in DOMAIN kruskalTimers : TimerKruskal(k)

SpecSpanningTrees == InitSpanningTrees /\ [][NextSpanningTrees]_vars

(***************************************************************************)
(* The editing handlers (lines 240-491) and the toolbar (lines 2061-2143). *)
(* The prompt of a weighted add-edge or of a rename answers a number of    *)
(* PromptWeights or is cancelled.                                          *)
(***************************************************************************)
PromptWeights == {-1, 1}

\* setModeAddNode, lines 350-353
setModeAddNode ==
    /\ ~thrown
    /\ mode' = "add_node" /\ edgeStart' = Null
    /\ UNCHANGED <<nodes, edges, isDirected, isWeighted, directedEdgeMemory, nextNodeId,
                   nextEdgeId, uniqueIds, runVars, timers, kruskalTimers, thrown, alerted>>

\* setModeAddEdge, lines 355-358
setModeAddEdge ==
    /\ ~thrown
    /\ mode' = "add_edge" /\ edgeStart' = Null
    /\ UNCHANGED <<nodes, edges, isDirected, isWeighted, directedEdgeMemory, nextNodeId,
                   nextEdgeId, uniqueIds, runVars, timers, kruskalTimers, thrown, alerted>>

\* setModeDelete, lines 360-363
setModeDelete ==
    /\ ~thrown
    /\ mode' = "delete" /\ edgeStart' = Null
    /\ UNCHANGED <<nodes, edges, isDirected, isWeighted, directedEdgeMemory, nextNodeId,
                   nextEdgeId, uniqueIds, runVars, timers, kruskalTimers, thrown, alerted>>

\* setModeRenameEdge, lines 365-368
setModeRenameEdge ==
    /\ ~thrown
    /\ mode' = "rename_edge" /\ edgeStart' = Null
    /\ UNCHANGED <<nodes, edges, isDirected, isWeighted, directedEdgeMemory, nextNodeId,
                   nextEdgeId, uniqueIds, runVars, timers, kruskalTimers, thrown, alerted>>

\* setModeDrag, lines 531-534
setModeDrag ==
    /\ ~thrown
    /\ mode' = "drag" /\ edgeStart' = Null
    /\ UNCHANGED <<nodes, edges, isDirected, isWeighted, directedEdgeMemory, nextNodeId,
                   nextEdgeId, uniqueIds, runVars, timers, kruskalTimers, thrown, alerted>>

\* handleSvgClick, lines 240-260
handleSvgClick ==
    /\ ~thrown /\ mode = "add_node"
    /\ Len(nodes) < MaxNodes /\ uniqueIds < MaxUniqueIds
    /\ nodes' = Append(nodes, [uniqueId |-> uniqueIds + 1, id |-> nextNodeId])
    /\ nextNodeId' = nextNodeId + 1
    /\ uniqueIds' = uniqueIds + 1
    /\ UNCHANGED <<edges, isDirected, isWeighted, mode, edgeStart, directedEdgeMemory,
                   nextEdgeId, runVars, timers, kruskalTimers, thrown, alerted>>

\* the node onClick of lines 2244-2255 reaches handleNodeClick
ReachesHandleNodeClick ==
    /\ mode \notin {"bfs", "dfs", "timed_dfs"}
    /\ ~bfs.isRunning /\ ~dfs.isRunning /\ ~tdfs.isRunning

\* the edge handleNodeClick appends and remembers, lines 289-302 and 304-317
AddEdge(target, weight) ==
    /\ Len(edges) < MaxEdges /\ nextEdgeId < MaxEdgeIds
    /\ edges' = Append(edges, [id |-> nextEdgeId, source |-> edgeStart,
                               target |-> target, weight |-> weight])
    /\ nextEdgeId' = nextEdgeId + 1
    /\ directedEdgeMemory' =
          [id \in DOMAIN directedEdgeMemory \cup {nextEdgeId} |->
              IF id = nextEdgeId THEN [source |-> edgeStart, target |-> target]
              ELSE directedEdgeMemory[id]]

\* an add-edge that looks for an existing edge in the clicked orientation only
ClickNodeAddEdgeOneWay(i) ==
    /\ ~thrown /\ ReachesHandleNodeClick /\ mode = "add_edge"
    /\ \E uniqueId \in {nodes[i].uniqueId} :
          IF edgeStart = Null
          THEN /\ edgeStart' = uniqueId
               /\ UNCHANGED <<edges, nextEdgeId, directedEdgeMemory>>
          ELSE /\ edgeStart' = Null
               /\ IF /\ edgeStart # uniqueId
                     /\ \A k \in DOMAIN edges :
                           ~(edges[k].source = edgeStart /\ edges[k].target = uniqueId)
                  THEN IF isWeighted
                       THEN \/ \E weight \in PromptWeights : AddEdge(uniqueId, weight)
                            \/ UNCHANGED <<edges, nextEdgeId, directedEdgeMemory>>
                       ELSE AddEdge(uniqueId, 1)
                  ELSE UNCHANGED <<edges, nextEdgeId, directedEdgeMemory>>
    /\ UNCHANGED <<nodes, isDirected, isWeighted, mode, nextNodeId, uniqueIds,
                   runVars, timers, kruskalTimers, thrown, alerted>>

\* handleNodeClick in mode add_edge, lines 271-322, on the node at position i
ClickNodeAddEdge(i) ==
    /\ ~thrown /\ ReachesHandleNodeClick /\ mode = "add_edge"
    /\ \E uniqueId \in {nodes[i].uniqueId} :
          IF edgeStart = Null
          THEN /\ edgeStart' = uniqueId
               /\ UNCHANGED <<edges, nextEdgeId, directedEdgeMemory>>
          ELSE /\ edgeStart' = Null
               /\ IF edgeStart # uniqueId /\ FindEdge(edgeStart, uniqueId) = 0
                  THEN IF isWeighted
                       THEN \/ \E weight \in PromptWeights : AddEdge(uniqueId, weight)
                            \/ UNCHANGED <<edges, nextEdgeId, directedEdgeMemory>>
                       ELSE AddEdge(uniqueId, 1)
                  ELSE UNCHANGED <<edges, nextEdgeId, directedEdgeMemory>>
    /\ UNCHANGED <<nodes, isDirected, isWeighted, mode, nextNodeId, uniqueIds,
                   runVars, timers, kruskalTimers, thrown, alerted>>

\* a delete that removes the node and leaves its edges in place
ClickNodeDeleteNodeOnly(i) ==
    /\ ~thrown /\ ReachesHandleNodeClick /\ mode = "delete"
    /\ nodes' = FilterSeq(nodes, DOMAIN nodes \ {i})
    /\ UNCHANGED <<edges, isDirected, isWeighted, mode, edgeStart, directedEdgeMemory,
                   nextNodeId, nextEdgeId, uniqueIds, runVars, timers, kruskalTimers,
                   thrown, alerted>>

\* handleNodeClick in mode delete, lines 323-331
ClickNodeDelete(i) ==
    /\ ~thrown /\ ReachesHandleNodeClick /\ mode = "delete"
    /\ \E uniqueId \in {nodes[i].uniqueId} :
          /\ nodes' = FilterSeq(nodes, {k \in DOMAIN nodes : nodes[k].uniqueId # uniqueId})
          /\ edges' = FilterSeq(edges, {k \in DOMAIN edges :
                                          /\ edges[k].source # uniqueId
                                          /\ edges[k].target # uniqueId})
    /\ UNCHANGED <<isDirected, isWeighted, mode, edgeStart, directedEdgeMemory, nextNodeId,
                   nextEdgeId, uniqueIds, runVars, timers, kruskalTimers, thrown, alerted>>

\* handleEdgeClick in mode rename_edge, lines 415-425, on the edge at position j
ClickEdgeRename(j) ==
    /\ ~thrown /\ mode = "rename_edge"
    /\ \/ \E newWeight \in PromptWeights :
             edges' = [edges EXCEPT ![j].weight = newWeight]
       \/ UNCHANGED edges
    /\ UNCHANGED <<nodes, isDirected, isWeighted, mode, edgeStart, directedEdgeMemory,
                   nextNodeId, nextEdgeId, uniqueIds, runVars, timers, kruskalTimers,
                   thrown, alerted>>

\* handleEdgeClick in mode delete, lines 426-428
ClickEdgeDelete(j) ==
    /\ ~thrown /\ mode = "delete"
    /\ edges' = FilterSeq(edges, DOMAIN edges \ {j})
    /\ UNCHANGED <<nodes, isDirected, isWeighted, mode, edgeStart, directedEdgeMemory,
                   nextNodeId, nextEdgeId, uniqueIds, runVars, timers, kruskalTimers,
                   thrown, alerted>>

\* resetNodeCounter, lines 432-434
resetNodeCounter ==
    /\ ~thrown
    /\ nextNodeId' = 0
    /\ UNCHANGED <<nodes, edges, isDirected, isWeighted, mode, edgeStart, directedEdgeMemory,
                   nextEdgeId, uniqueIds, runVars, timers, kruskalTimers, thrown, alerted>>

\* deleteAll, lines 437-451: the graph, both counters and the seven run states
deleteAll ==
    /\ ~thrown
    /\ nodes' = <<>> /\ edges' = <<>>
    /\ nextNodeId' = 0 /\ nextEdgeId' = 0
    /\ edgeStart' = Null
    /\ bfs' = BfsIdle /\ dfs' = DfsIdle /\ tdfs' = TimedDfsIdle
    /\ bf' = BellmanFordIdle /\ dij' = DijkstraIdle
    /\ prim' = PrimIdle /\ kruskal' = KruskalIdle
    /\ UNCHANGED <<isDirected, isWeighted, mode, directedEdgeMemory, uniqueIds,
                   timers, kruskalTimers, thrown, alerted>>

\* the weighted / unweighted radios, lines 2061-2078: never disabled
setIsWeighted(weighted) ==
    /\ ~thrown /\ isWeighted # weighted
    /\ isWeighted' = weighted
    /\ UNCHANGED <<nodes, edges, isDirected, mode, edgeStart, directedEdgeMemory, nextNodeId,
                   nextEdgeId, uniqueIds, runVars, timers, kruskalTimers, thrown, alerted>>

\* the first edge of es that joins the same two nodes as es[k], in either direction
FirstOfPair(es, k) ==
    FirstIdx(es, {e \in Range(es) :
                     \/ e.source = es[k].source /\ e.target = es[k].target
                     \/ e.source = es[k].target /\ e.target = es[k].source})

\* switching to directed, lines 457-473: remembered directions, then one edge per pair
RestoredEdges(es) ==
    WithValue([k \in DOMAIN es |->
                  IF es[k].id \in DOMAIN directedEdgeMemory
                  THEN [es[k] EXCEPT !.source = directedEdgeMemory[es[k].id].source,
                                     !.target = directedEdgeMemory[es[k].id].target]
                  ELSE es[k]],
              LAMBDA newEdges :
                  FilterSeq(newEdges, {k \in DOMAIN newEdges : FirstOfPair(newEdges, k) = k}))

\* switching to undirected, lines 474-489: the first edge of every unordered pair
NormalizedEdges(es) ==
    FilterSeq(es, {k \in DOMAIN es : FirstOfPair(es, k) = k})

\* direction radios that stay enabled while the graph has nodes
handleDirectedToggleAnyTime(directed) ==
    /\ ~thrown /\ isDirected # directed
    /\ isDirected' = directed
    /\ edges' = IF directed THEN RestoredEdges(edges) ELSE NormalizedEdges(edges)
    /\ UNCHANGED <<nodes, isWeighted, mode, edgeStart, directedEdgeMemory, nextNodeId,
                   nextEdgeId, uniqueIds, runVars, timers, kruskalTimers, thrown, alerted>>

\* handleDirectedToggle, lines 454-491 (radios disabled while a node exists, 2088, 2101)
handleDirectedToggle(directed) ==
    /\ ~thrown /\ Len(nodes) = 0 /\ isDirected # directed
    /\ isDirected' = directed
    /\ edges' = IF directed THEN RestoredEdges(edges) ELSE NormalizedEdges(edges)
    /\ UNCHANGED <<nodes, isWeighted, mode, edgeStart, directedEdgeMemory, nextNodeId,
                   nextEdgeId, uniqueIds, runVars, timers, kruskalTimers, thrown, alerted>>

\* handleDirectedToggle as a function of the state it is called in, lines 454-491
handleDirectedToggleCall(directed) ==
    /\ ~thrown
    /\ isDirected' = directed
    /\ edges' = IF directed THEN RestoredEdges(edges) ELSE NormalizedEdges(edges)
    /\ UNCHANGED <<nodes, isWeighted, mode, edgeStart, directedEdgeMemory, nextNodeId,
                   nextEdgeId, uniqueIds, runVars, timers, kruskalTimers, thrown, alerted>>

\* the state after construction: an empty undirected weighted graph, lines 18-130
InitEmpty ==
    /\ nodes = <<>> /\ edges = <<>>
    /\ isDirected = FALSE /\ isWeighted = TRUE
    /\ mode = "add_node"
    /\ edgeStart = Null /\ directedEdgeMemory = NoMap
    /\ nextNodeId = 0 /\ nextEdgeId = 0 /\ uniqueIds = 0
    /\ bfs = BfsIdle /\ dfs = DfsIdle /\ tdfs = TimedDfsIdle
    /\ bf = BellmanFordIdle /\ dij = DijkstraIdle
    /\ prim = PrimIdle /\ kruskal = KruskalIdle
    /\ timers = [a \in Algs |-> 0]
    /\ kruskalTimers = <<>>
    /\ thrown = FALSE
    /\ alerted = "none"

\* the editing operations alone
NextEditing ==
    \/ setModeAddNode
    \/ setModeAddEdge
    \/ setModeDelete
    \/ setModeRenameEdge
    \/ setModeDrag
    \/ handleSvgClick
    \/ \E i \in DOMAIN nodes : ClickNodeAddEdge(i)
    \/ \E i \in DOMAIN nodes : ClickNodeDelete(i)
    \/ \E j \in DOMAIN edges : ClickEdgeRename(j)
    \/ \E j \in DOMAIN edges : ClickEdgeDelete(j)
    \/ resetNodeCounter
    \/ deleteAll
    \/ \E weighted \in BOOLEAN : setIsWeighted(weighted)
    \/ \E directed \in BOOLEAN : handleDirectedToggle(directed)

SpecEditing == InitEmpty /\ [][NextEditing]_vars

\* the editing operations applied to graphs the editor has already built
InitEditingGraphs == InitWith({TRUE, FALSE}, {TRUE}, {1, 2})

SpecEditingGraphs == InitEditingGraphs /\ [][NextEditing]_vars

(***************************************************************************)
(* The editor together with the weighted algorithms, from the empty graph. *)
(* The structure of the graph is edited only while no run of these         *)
(* algorithms is running, and a run is started only when no continuation   *)
(* of an earlier run is pending; mode buttons, the weighted radios, Reset  *)
(* Counter and Delete All are used at any time.  At most MaxRunEdgeIds     *)
(* edges are added between two uses of Delete All.                         *)
(***************************************************************************)
NoRunIsRunning ==
    ~bf.isRunning /\ ~dij.isRunning /\ ~prim.isRunning /\ ~kruskal.isRunning

NextToolbar ==
    \/ setModeAddNode
    \/ setModeAddEdge
    \/ setModeDelete
    \/ setModeRenameEdge
    \/ setModeDrag
    \/ resetNodeCounter
    \/ deleteAll
    \/ \E weighted \in BOOLEAN : setIsWeighted(weighted)
    \/ \E directed \in BOOLEAN : handleDirectedToggle(directed)

NextEditorShortestPaths ==
    \/ NextToolbar
    \/ NoRunIsRunning /\ handleSvgClick
    \/ \E i \in DOMAIN nodes :
          NoRunIsRunning /\ ClickNodeAddEdge(i) /\ nextEdgeId' <= MaxRunEdgeIds
    \/ \E i \in DOMAIN nodes : NoRunIsRunning /\ ClickNodeDelete(i)
    \/ \E j \in DOMAIN edges : NoRunIsRunning /\ ClickEdgeRename(j)
    \/ \E j \in DOMAIN edges : NoRunIsRunning /\ ClickEdgeDelete(j)
    \/ PressStartBellmanFord
    \/ \E i \in DOMAIN nodes : timers["bf"] = 0 /\ ClickNodeBellmanFord(i)
    \/ TimerBellmanFord
    \/ ResetBellmanFord
    \/ PressStartDijkstra
    \/ \E i \in DOMAIN nodes : timers["dij"] = 0 /\ ClickNodeDijkstra(i)
    \/ TimerDijkstra
    \/ ResetDijkstra

SpecEditorShortestPaths == InitEmpty /\ [][NextEditorShortestPaths]_vars

NextEditorSpanningTrees ==
    \/ NextToolbar
    \/ NoRunIsRunning /\ handleSvgClick
    \/ \E i \in DOMAIN nodes :
          NoRunIsRunning /\ ClickNodeAddEdge(i) /\ nextEdgeId' <= MaxRunEdgeIds
    \/ \E i \in DOMAIN nodes : NoRunIsRunning /\ ClickNodeDelete(i)
    \/ \E j \in DOMAIN edges : NoRunIsRunning /\ ClickEdgeRename(j)
    \/ \E j \in DOMAIN edges : NoRunIsRunning /\ ClickEdgeDelete(j)
    \/ PressStartPrim
    \/ \E i \in DOMAIN nodes : timers["prim"] = 0 /\ ClickNodePrim(i)
    \/ TimerPrim
    \/ ResetPrim
    \/ kruskalTimers = <<>> /\ PressStartKruskal
    \/ \E k \in DOMAIN kruskalTimers : TimerKruskal(k)
    \/ ResetKruskal

SpecEditorSpanningTrees == InitEmpty /\ [][NextEditorSpanningTrees]_vars

(***************************************************************************)
(* One run, of any of the seven algorithms, started from rest and left to  *)
(* its timers: no pause, reset, restart or edit.  A pending timer          *)
(* eventually expires.                                                     *)
(***************************************************************************)
AllAtRest ==
    /\ bfs = BfsIdle /\ dfs = DfsIdle /\ tdfs = TimedDfsIdle
    /\ bf = BellmanFordIdle /\ dij = DijkstraIdle
    /\ prim = PrimIdle /\ kruskal = KruskalIdle

InitUndisturbedRun == InitWith({TRUE, FALSE}, {TRUE}, {1})

NextUndisturbedRun ==
    \/ AllAtRest /\ PressStartBFS
    \/ AllAtRest /\ PressStartDFS
    \/ AllAtRest /\ PressStartTimedDFS
    \/ AllAtRest /\ PressStartBellmanFord
    \/ AllAtRest /\ PressStartDijkstra
    \/ AllAtRest /\ PressStartPrim
    \/ AllAtRest /\ PressStartKruskal
    \/ \E i \in DOMAIN nodes : AllAtRest /\ ClickNodeBFS(i)
    \/ \E i \in DOMAIN nodes : AllAtRest /\ ClickNodeDFS(i)
    \/ \E i \in DOMAIN nodes : AllAtRest /\ ClickNodeTimedDFS(i)
    \/ \E i \in DOMAIN nodes : AllAtRest /\ ClickNodeBellmanFord(i)
    \/ \E i \in DOMAIN nodes : AllAtRest /\ ClickNodeDijkstra(i)
    \/ \E i \in DOMAIN nodes : AllAtRest /\ ClickNodePrim(i)
    \/ TimerBFS
    \/ TimerDFS
    \/ TimerTimedDFS
    \/ TimerBellmanFord
    \/ TimerDijkstra
    \/ TimerPrim
    \/ \E k \in DOMAIN kruskalTimers : TimerKruskal(k)

TimersFire ==
    /\ WF_vars(TimerBFS) /\ WF_vars(TimerDFS) /\ WF_vars(TimerTimedDFS)
    /\ WF_vars(TimerBellmanFord) /\ WF_vars(TimerDijkstra) /\ WF_vars(TimerPrim)
    /\ WF_vars(\E k \in DOMAIN kruskalTimers : TimerKruskal(k))

SpecUndisturbedRun == InitUndisturbedRun /\ [][NextUndisturbedRun]_vars /\ TimersFire

(***************************************************************************)
(* handleDirectedToggle applied, with either argument, to the edge lists   *)
(* of built graphs of both direction types.                                *)
(***************************************************************************)
NextDirectedToggle == \E directed \in BOOLEAN : handleDirectedToggleCall(directed)

SpecDirectedToggle == InitEditingGraphs /\ [][NextDirectedToggle]_vars

(***************************************************************************)
(* The graph is edited while a Kruskal run goes on: no editing handler     *)
(* looks at kruskalAnimationState, and the run's continuations step over   *)
(* the sortedEdges and the DisjointSet they captured at the start.         *)
(***************************************************************************)
InitEditingDuringRun == InitWith({FALSE}, {TRUE}, {1})

NextEditingDuringRun ==
    \/ setModeAddNode
    \/ setModeAddEdge
    \/ setModeDelete
    \/ setModeRenameEdge
    \/ handleSvgClick
    \/ \E i \in DOMAIN nodes : ClickNodeAddEdge(i)
    \/ \E i \in DOMAIN nodes : ClickNodeDelete(i)
    \/ \E j \in DOMAIN edges : ClickEdgeRename(j)
    \/ \E j \in DOMAIN edges : ClickEdgeDelete(j)
    \/ deleteAll
    \/ kruskalTimers = <<>> /\ PressStartKruskal
    \/ \E k \in DOMAIN kruskalTimers : TimerKruskal(k)
    \/ ResetKruskal

SpecEditingDuringRun == InitEditingDuringRun /\ [][NextEditingDuringRun]_vars

(***************************************************************************)
(* One Kruskal run from rest, with pause/resume toggles and arbitrary      *)
(* timer delays, and no reset.                                             *)
(***************************************************************************)
InitKruskalRun == InitWith({FALSE}, {TRUE}, {1, 2})

NextKruskalRun ==
    \/ kruskal = KruskalIdle /\ PressStartKruskal
    \/ \E k \in DOMAIN kruskalTimers : TimerKruskal(k)
    \/ TogglePauseKruskal

SpecKruskalRun == InitKruskalRun /\ [][NextKruskalRun]_vars

(***************************************************************************)
(* BFS and DFS driven side by side on the same graph.                      *)
(***************************************************************************)
InitTraversals == InitWith({TRUE, FALSE}, {FALSE}, {1})

NextTraversals ==
    \/ NextBFS
    \/ NextDFS

SpecTraversals == InitTraversals /\ [][NextTraversals]_vars

(***************************************************************************)
(* Graph-theoretic references, over node identities and stored edges.      *)
(***************************************************************************)
\* v is a neighbour of u: a stored edge u -> v, or v -> u when undirected
Arc(u, v) ==
    \E i \in DOMAIN edges :
        \/ edges[i].source = u /\ edges[i].target = v
        \/ ~isDirected /\ edges[i].source = v /\ edges[i].target = u

RECURSIVE ReachWithin(_, _)
\* the nodes at most k edges away from s
ReachWithin(s, k) ==
    IF k = 0 THEN {s}
    ELSE WithValue(ReachWithin(s, k - 1), LAMBDA r :
            r \cup {v \in NodeIds : \E u \in r : Arc(u, v)})

Reachable(s) == ReachWithin(s, Len(nodes))

\* the least number of edges on a path from s to v, Infinity when there is none
HopDistance(s, v) ==
    IF v \notin Reachable(s) THEN Infinity
    ELSE CHOOSE k \in 0..Len(nodes) :
            v \in ReachWithin(s, k) /\ \A j \in 0..(k - 1) : v \notin ReachWithin(s, j)

\* no visible id is shared by two live nodes
DistinctVisibleIds ==
    \A i, j \in DOMAIN nodes : nodes[i].id = nodes[j].id => i = j

(***************************************************************************)
(* C1.  When a BFS run has completed (queue empty), the distance of every  *)
(* node reachable from the source is the least number of edges of a path   *)
(* from the source, and every other node keeps distance Infinity and       *)
(* predecessor null.                                                       *)
(***************************************************************************)
BFSComplete == bfs.sourceNode # Null /\ bfs.queue = <<>>

C1_BFSDistances ==
    BFSComplete =>
        \A n \in NodeIds :
            /\ bfs.distances[n] = HopDistance(bfs.sourceNode, n)
            /\ n \notin Reachable(bfs.sourceNode) => bfs.predecessors[n] = Null

\* the same, for graphs whose visible ids are pairwise distinct
C1_BFSDistancesDistinctIds == DistinctVisibleIds => C1_BFSDistances

\* the weight of the stored edge that joins u to v
EdgeWeight(u, v) == edges[FindEdge(u, v)].weight

\* the simple paths that start at s, as sequences of distinct nodes
PathsFrom(s) ==
    {p \in UNION {[1..k -> NodeIds] : k \in 1..Cardinality(NodeIds)} :
        /\ p[1] = s
        /\ \A i, j \in DOMAIN p : p[i] = p[j] => i = j
        /\ \A i \in 1..(Len(p) - 1) : Arc(p[i], p[i + 1])}

RECURSIVE CostFrom(_, _)
\* the total weight of the edges of p from position i on
CostFrom(p, i) ==
    IF i >= Len(p) THEN 0 ELSE EdgeWeight(p[i], p[i + 1]) + CostFrom(p, i + 1)

PathCost(p) == CostFrom(p, 1)

\* the least total weight of a simple path from s to v, Infinity when there is none
MinPathCost(s, v) ==
    IF v \notin Reachable(s) THEN Infinity
    ELSE WithValue({PathCost(p) : p \in {q \in PathsFrom(s) : q[Len(q)] = v}},
                   LAMBDA costs : CHOOSE c \in costs : \A d \in costs : c <= d)

\* some cycle of negative total weight can be reached from s
NegativeCycleReachable(s) ==
    \E u \in Reachable(s) :
        \E p \in PathsFrom(u) :
            /\ Len(p) >= 2
            /\ Arc(p[Len(p)], u)
            /\ PathCost(p) + EdgeWeight(p[Len(p)], u) < 0

\* a Bellman-Ford run has stopped
BellmanFordStopped == bf.sourceNode # Null /\ ~bf.isRunning

\* this step stops the running Bellman-Ford run
BellmanFordStops == bf.isRunning /\ ~bf'.isRunning /\ bf'.sourceNode # Null

\* a directed graph with an edge, and a run whose source reaches no negative cycle
NoNegativeCycleRun ==
    /\ isDirected /\ Len(edges) >= 1
    /\ bf.sourceNode # Null
    /\ ~NegativeCycleReachable(bf.sourceNode)

(***************************************************************************)
(* C3.  When a Bellman-Ford run on a directed graph has stopped and a      *)
(* cycle of negative total weight is reachable from its source,            *)
(* hasNegativeCycle is true.                                               *)
(***************************************************************************)
C3_NegativeCycleReported ==
    (isDirected /\ BellmanFordStopped /\ NegativeCycleReachable(bf.sourceNode))
        => bf.hasNegativeCycle

(***************************************************************************)
(* C4.  On a directed graph with at least one edge and no negative cycle   *)
(* reachable from the source, a Bellman-Ford run stops only at a pass      *)
(* boundary whose just-finished pass relaxed no edge, never steps past     *)
(* such a boundary, and once stopped has hasNegativeCycle = false and      *)
(* every distance equal to the minimum path cost from the source.          *)
(***************************************************************************)
C4_StopsAtQuietBoundary ==
    /\ [][NoNegativeCycleRun =>
            /\ BellmanFordStops => (AtPassBoundary(bf) /\ ~bf.anyChanges)
            /\ (bf.isRunning /\ AtPassBoundary(bf) /\ ~bf.anyChanges)
                  => bf'.currentStep <= bf.currentStep]_vars
    /\ []((NoNegativeCycleRun /\ BellmanFordStopped) =>
            /\ ~bf.hasNegativeCycle
            /\ \A n \in NodeIds : bf.distances[n] = MinPathCost(bf.sourceNode, n))

(***************************************************************************)
(* C4, amended.  As C4, except that on a graph of two nodes the run stops  *)
(* at the end of its first pass whether or not that pass relaxed an edge.  *)
(***************************************************************************)
C4_StopsAtQuietBoundaryOrTwoNodes ==
    /\ [][NoNegativeCycleRun =>
            /\ BellmanFordStops =>
                  /\ AtPassBoundary(bf)
                  /\ IF Len(nodes) = 2 THEN bf.currentStep = Len(edges)
                                       ELSE ~bf.anyChanges
            /\ (bf.isRunning /\ AtPassBoundary(bf) /\ ~bf.anyChanges)
                  => bf'.currentStep <= bf.currentStep]_vars
    /\ []((NoNegativeCycleRun /\ BellmanFordStopped) =>
            /\ ~bf.hasNegativeCycle
            /\ \A n \in NodeIds : bf.distances[n] = MinPathCost(bf.sourceNode, n))

\* a stopped two-node run whose only pass relaxed the edge to the other node
C4_Witness ==
    /\ NoNegativeCycleRun /\ BellmanFordStopped
    /\ Len(nodes) = 2
    /\ \E n \in NodeIds : n # bf.sourceNode /\ bf.distances[n] # Infinity

\* a stopped three-node run that ended at a quiet pass boundary
C4_WitnessThreeNodes ==
    /\ NoNegativeCycleRun /\ BellmanFordStopped
    /\ Len(nodes) = 3 /\ bf.showShortestPaths
    /\ \A n \in NodeIds : bf.distances[n] # Infinity

\* the directed graph has a cycle: some arc u -> v with u reachable from v
HasCycle == \E u, v \in NodeIds : Arc(u, v) /\ u \in Reachable(v)

\* the position of node u in a sequence of node identities, 0 when absent
Position(ns, u) == FirstIdx(ns, {u})

\* a topological-DFS run has stopped with something visited (line 2443)
TimedDFSComplete == ~tdfs.isRunning /\ tdfs.visitedNodes # {}

(***************************************************************************)
(* C6.  When a topological-DFS run on a directed acyclic graph has         *)
(* completed, the order by descending finish time holds every node exactly *)
(* once, and the source of every stored edge comes before its target.      *)
(***************************************************************************)
C6_TopologicalOrder ==
    (isDirected /\ ~HasCycle /\ TimedDFSComplete) =>
        \E ns \in {TopologicalNodes(tdfs.finishTimes)} :
            /\ \A u \in NodeIds : Cardinality({i \in DOMAIN ns : ns[i] = u}) = 1
            /\ \A i \in DOMAIN edges :
                  Position(ns, edges[i].source) < Position(ns, edges[i].target)

\* the same, for graphs whose visible ids are pairwise distinct
C6_TopologicalOrderDistinctIds == DistinctVisibleIds => C6_TopologicalOrder

(***************************************************************************)
(* C7.  When a topological-DFS run on a directed graph has completed,      *)
(* hasBackEdge is true exactly when the graph has a directed cycle, and    *)
(* when it is true the report is "invalid" and shows no order.             *)
(***************************************************************************)
C7_BackEdgeIffCycle ==
    (isDirected /\ TimedDFSComplete) =>
        /\ tdfs.hasBackEdge <=> HasCycle
        /\ tdfs.hasBackEdge =>
              TopologicalReport.status = "invalid" /\ TopologicalReport.order = <<>>

\* the same, for graphs whose visible ids are pairwise distinct
C7_BackEdgeIffCycleDistinctIds == DistinctVisibleIds => C7_BackEdgeIffCycle

\* a Dijkstra run has completed: started, and its priority queue is empty
DijkstraComplete == dij.sourceNode # Null /\ dij.priorityQueue = <<>>

(***************************************************************************)
(* C2.  When a Dijkstra run on a directed graph with non-negative weights  *)
(* has completed (priority queue empty), the distance of every node is the *)
(* minimum total weight of a directed path from the source, and Infinity   *)
(* for a node the source does not reach.                                   *)
(***************************************************************************)
C2_DijkstraDistances ==
    (isDirected /\ (\A i \in DOMAIN edges : edges[i].weight >= 0) /\ DijkstraComplete) =>
        \A n \in NodeIds : dij.distances[n] = MinPathCost(dij.sourceNode, n)

\* the same, for graphs whose visible ids are pairwise distinct
C2_DijkstraDistancesDistinctIds == DistinctVisibleIds => C2_DijkstraDistances

(***************************************************************************)
(* C5.  On a directed graph with non-negative weights, a stopped           *)
(* Bellman-Ford run and a completed Dijkstra run from the same source hold *)
(* the same distance for every node, Infinity included.                    *)
(***************************************************************************)
C5_SameDistances ==
    (/\ isDirected /\ \A i \in DOMAIN edges : edges[i].weight >= 0
     /\ BellmanFordStopped /\ DijkstraComplete
     /\ bf.sourceNode = dij.sourceNode)
        => \A n \in NodeIds : bf.distances[n] = dij.distances[n]

\* the same, for graphs whose visible ids are pairwise distinct
C5_SameDistancesDistinctIds == DistinctVisibleIds => C5_SameDistances

\* u and v are joined by a stored edge whose id is in S
ArcVia(S, u, v) ==
    \E i \in DOMAIN edges :
        /\ edges[i].id \in S
        /\ \/ edges[i].source = u /\ edges[i].target = v
           \/ edges[i].source = v /\ edges[i].target = u

RECURSIVE ReachVia(_, _, _)
\* the nodes at most k edges of S away from s
ReachVia(S, s, k) ==
    IF k = 0 THEN {s}
    ELSE WithValue(ReachVia(S, s, k - 1), LAMBDA r :
            r \cup {v \in NodeIds : \E u \in r : ArcVia(S, u, v)})

\* the edges with ids in S form a spanning tree: |V| - 1 edges joining all nodes
IsSpanningTree(S) ==
    /\ S \subseteq {edges[i].id : i \in DOMAIN edges}
    /\ Cardinality(S) = Len(nodes) - 1
    /\ \A s \in NodeIds : ReachVia(S, s, Len(nodes)) = NodeIds

\* the total weight of the edges with ids in S
TreeWeight(S) ==
    LET RECURSIVE Sum(_)
        Sum(i) == IF i > Len(edges) THEN 0
                  ELSE (IF edges[i].id \in S THEN edges[i].weight ELSE 0) + Sum(i + 1)
    IN Sum(1)

\* every node is joined to every other by the stored edges
Connected == \A s \in NodeIds : Reachable(s) = NodeIds

\* a Prim run has stopped
PrimComplete == prim.sourceNode # Null /\ ~prim.isRunning

\* a Kruskal run has completed
KruskalComplete == kruskal.isComplete

(***************************************************************************)
(* C8.  On a connected, weighted, undirected graph, once a Prim run and a  *)
(* Kruskal run have both completed, Kruskal's totalWeight is at most       *)
(* Prim's, Prim's is at most the weight of every spanning tree, and both   *)
(* mstEdges sets are spanning trees.                                       *)
(***************************************************************************)
C8_MinimumSpanningTrees ==
    (~isDirected /\ isWeighted /\ Connected /\ PrimComplete /\ KruskalComplete) =>
        /\ kruskal.totalWeight <= prim.totalWeight
        /\ \A S \in SUBSET {edges[i].id : i \in DOMAIN edges} :
              IsSpanningTree(S) => prim.totalWeight <= TreeWeight(S)
        /\ IsSpanningTree(prim.mstEdges)
        /\ IsSpanningTree(kruskal.mstEdges)

\* the same, for graphs whose visible ids are pairwise distinct
C8_MinimumSpanningTreesDistinctIds == DistinctVisibleIds => C8_MinimumSpanningTrees

\* the run state of the algorithm whose timer chain is counted under name a
RunOf(a) ==
    CASE a = "bfs" -> bfs [] a = "dfs" -> dfs [] a = "tdfs" -> tdfs
      [] a = "bf" -> bf [] a = "dij" -> dij [] a = "prim" -> prim

(***************************************************************************)
(* C9.  A run that is running and not paused always has its next step      *)
(* scheduled: pausing and resuming never leaves a run with isRunning true, *)
(* isPaused false and no pending continuation, from which it could never   *)
(* step or stop again.                                                     *)
(***************************************************************************)
C9_ResumedRunIsScheduled ==
    /\ \A a \in Algs : (RunOf(a).isRunning /\ ~RunOf(a).isPaused) => timers[a] > 0
    /\ (kruskal.isRunning /\ ~kruskal.isPaused) => kruskalTimers # <<>>

(***************************************************************************)
(* C10.  Under every interleaving of start, pause, resume, reset and timer *)
(* expiry, a run never has more than one scheduled continuation            *)
(* outstanding.                                                            *)
(***************************************************************************)
C10_OneContinuation ==
    /\ \A a \in Algs : timers[a] <= 1
    /\ Len(kruskalTimers) <= 1

\* the algorithm runs whose isRunning flag is set
RunningRuns ==
    {a \in Algs : RunOf(a).isRunning} \cup (IF kruskal.isRunning THEN {"kruskal"} ELSE {})

(***************************************************************************)
(* C11.  In every reachable state at most one of the seven algorithm run   *)
(* states has isRunning = true: a start requested while another            *)
(* algorithm's run is Running or Paused is rejected.                       *)
(***************************************************************************)
C11_OneRunAtATime == Cardinality(RunningRuns) <= 1

\* the Idle value each run state is constructed with and reset to
IdleOf(a) ==
    CASE a = "bfs" -> BfsIdle
      [] a = "dfs" -> DfsIdle
      [] a = "tdfs" -> TimedDfsIdle
      [] a = "bf" -> BellmanFordIdle
      [] a = "dij" -> DijkstraIdle
      [] a = "prim" -> PrimIdle

(***************************************************************************)
(* C12.  After a reset, and until the next start (which always schedules a *)
(* continuation), a run state equals its initial Idle value and stays so:  *)
(* in particular a continuation timer that was scheduled before the reset  *)
(* and fires after it leaves the Idle run state as it is.                  *)
(***************************************************************************)
C12_IdleUntilNextStart ==
    [][/\ (kruskal = KruskalIdle /\ Len(kruskalTimers') <= Len(kruskalTimers))
            => kruskal' = KruskalIdle
       /\ \A a \in Algs :
            (RunOf(a) = IdleOf(a) /\ timers'[a] <= timers[a]) => RunOf(a)' = IdleOf(a)]_vars

\* the state an undisturbed run ends in: runKruskalStep repeated on one
\* DisjointSet until every edge is processed, then the completion branch
RECURSIVE KruskalRunToEnd(_, _)
KruskalRunToEnd(state, dsu) ==
    IF state.currentStep >= Len(state.sortedEdges)
    THEN [state EXCEPT
            !.isRunning = FALSE, !.isComplete = TRUE,
            !.error = IF state.numComponents = 1 THEN "null"
                      ELSE "Graph is disconnected. Forest of MSTs generated."]
    ELSE WithValue(KruskalStep(state, dsu),
                   LAMBDA r : KruskalRunToEnd(r.state, r.dsu))

UndisturbedKruskal == KruskalRunToEnd(KruskalInitState(KruskalIdle), DsuMakeSets)

(***************************************************************************)
(* C13.  Two runs of the same algorithm on the same graph go through the   *)
(* same snapshots and end in the same final state whatever the delays and  *)
(* the pause/resume toggles: a completed Kruskal run has the MST edges,    *)
(* total weight, component count and error of the undisturbed run.         *)
(***************************************************************************)
C13_SameFinalState ==
    kruskal.isComplete =>
        /\ kruskal.mstEdges = UndisturbedKruskal.mstEdges
        /\ kruskal.totalWeight = UndisturbedKruskal.totalWeight
        /\ kruskal.numComponents = UndisturbedKruskal.numComponents
        /\ kruskal.error = UndisturbedKruskal.error
        /\ kruskal.edgesProcessed = UndisturbedKruskal.edgesProcessed

ViewArc(u, v) ==
    \E i \in DOMAIN getAdjacencyList[VisibleId(u)] :
        FindNodeById(getAdjacencyList[VisibleId(u)][i].node) = v

RECURSIVE ViewReachWithin(_, _)
\* the nodes at most k adjacency-view entries away from s
ViewReachWithin(s, k) ==
    IF k = 0 THEN {s}
    ELSE WithValue(ViewReachWithin(s, k - 1), LAMBDA r :
            r \cup {v \in NodeIds : \E u \in r : ViewArc(u, v)})

ViewReachable(s) == ViewReachWithin(s, Len(nodes))

\* a Prim run has stopped: it was started and isRunning is false
PrimStopped == prim.sourceNode # Null /\ ~prim.isRunning

(***************************************************************************)
(* C16.  On a weighted graph in which some node is not reachable from the  *)
(* Prim source through the adjacency view, a Prim run that has stopped has *)
(* error "Graph is disconnected. Cannot construct complete MST." and fewer *)
(* processed nodes than the graph has nodes; it never stops with error     *)
(* null.                                                                   *)
(***************************************************************************)
C16_DisconnectedReported ==
    (isWeighted /\ PrimStopped /\ ViewReachable(prim.sourceNode) # NodeIds) =>
        /\ prim.error = "Graph is disconnected. Cannot construct complete MST."
        /\ Cardinality(prim.processedNodes) < Len(nodes)

\* a stopped run that took an edge into its tree and left a node out of reach
C16_Witness ==
    /\ isWeighted /\ PrimStopped
    /\ ViewReachable(prim.sourceNode) # NodeIds
    /\ prim.mstEdges # {}
    /\ prim.error # "null"

\* the connected components of the stored graph, as sets of nodes
GraphComponents == {Reachable(u) : u \in NodeIds}

(***************************************************************************)
(* C17.  When a Kruskal run has completed, numComponents is the number of  *)
(* connected components of the graph, error is null when that number is 1  *)
(* and the forest message otherwise, and mstEdges is a spanning forest:    *)
(* it has no cycle and joins exactly the nodes the graph joins.            *)
(***************************************************************************)
C17_CompletesWithSpanningForest ==
    KruskalComplete =>
        /\ ~kruskal.isRunning
        /\ kruskal.numComponents = Cardinality(GraphComponents)
        /\ kruskal.error = IF Cardinality(GraphComponents) = 1 THEN "null"
                           ELSE "Graph is disconnected. Forest of MSTs generated."
        /\ kruskal.mstEdges \subseteq {edges[i].id : i \in DOMAIN edges}
        /\ Cardinality(kruskal.mstEdges) = Len(nodes) - Cardinality(GraphComponents)
        /\ \A s \in NodeIds : ReachVia(kruskal.mstEdges, s, Len(nodes)) = Reachable(s)

\* the alerts with which a start handler turns a start down
Rejections ==
    {"Bellman-Ford algorithm requires a directed graph. Please switch to directed mode before starting.",
     "Dijkstra's algorithm requires a directed graph. Please switch to directed mode before starting.",
     "Dijkstra's algorithm cannot handle negative weights. Please use Bellman-Ford instead.",
     "Prim's algorithm requires a weighted graph. Please switch to weighted mode before starting.",
     "Kruskal's algorithm requires a weighted graph. Please switch to weighted mode before starting.",
     "Kruskal's algorithm requires an undirected graph. Please switch to undirected mode before starting."}

HasNegativeWeights == \E i \in DOMAIN edges : edges[i].weight < 0

C19_SpanningTreeRunsNeedWeights ==
    [][/\ (\E i \in DOMAIN nodes : ClickNodePrim(i)) => isWeighted
       /\ (kruskal'.isRunning /\ ~kruskal.isRunning) => (isWeighted /\ ~isDirected)]_vars

(***************************************************************************)
(* C20.  Whatever the user does, also between pressing Start and clicking  *)
(* the source, a Bellman-Ford or Dijkstra run is initialised only while    *)
(* the graph is directed, and a Dijkstra run only while no stored edge has *)
(* a negative weight: whenever a node can be clicked in mode bellman_ford  *)
(* or dijkstra the precondition holds, and so it does at every source      *)
(* click.                                                                  *)
(***************************************************************************)
C20_ShortestPathRunsNeedPreconditions ==
    /\ []((mode = "bellman_ford" /\ Len(nodes) > 0) => isDirected)
    /\ []((mode = "dijkstra" /\ Len(nodes) > 0) => (isDirected /\ ~HasNegativeWeights))
    /\ [][/\ (\E i \in DOMAIN nodes : ClickNodeBellmanFord(i)) => isDirected
          /\ (\E i \in DOMAIN nodes : ClickNodeDijkstra(i))
                => (isDirected /\ ~HasNegativeWeights)]_vars

\* a running Dijkstra run on a directed graph with an edge, initialised after the
\* weighted radio was changed
C20_Witness ==
    /\ dij.isRunning /\ dij.sourceNode # Null
    /\ mode = "dijkstra"
    /\ isDirected /\ Len(edges) > 0 /\ ~HasNegativeWeights
    /\ ~isWeighted

\* the stored edges with an endpoint u, as positions
IncidentEdges(u) ==
    {k \in DOMAIN edges : edges[k].source = u \/ edges[k].target = u}

(***************************************************************************)
(* C21.  After any sequence of editing operations every stored edge has a  *)
(* source and a target that are identities of live nodes and differ from   *)
(* each other, and a step that deletes one node removes exactly the edges  *)
(* incident to it.                                                         *)
(***************************************************************************)
C21_EdgesJoinLiveNodes ==
    /\ [](\A k \in DOMAIN edges :
            /\ edges[k].source \in NodeIds
            /\ edges[k].target \in NodeIds
            /\ edges[k].source # edges[k].target)
    /\ [][\A u \in NodeIds :
            (NodeIds' = NodeIds \ {u}) =>
                edges' = FilterSeq(edges, DOMAIN edges \ IncidentEdges(u))]_vars

\* one of three nodes was deleted with its edges, and an edge of the other two is left
C21_Witness ==
    /\ mode = "delete"
    /\ Len(nodes) = 2 /\ uniqueIds = 3
    /\ Len(edges) = 1 /\ nextEdgeId = 3

\* edges j and k of es join the same two nodes, in either orientation
SamePair(es, j, k) ==
    \/ es[j].source = es[k].source /\ es[j].target = es[k].target
    \/ es[j].source = es[k].target /\ es[j].target = es[k].source

(***************************************************************************)
(* C22.  While the graph is undirected no two stored edges join the same   *)
(* unordered pair of nodes; and a step that switches to undirected keeps,  *)
(* of the edges of every unordered pair, the first one only.               *)
(***************************************************************************)
C22_OneEdgePerUnorderedPair ==
    /\ [](~isDirected =>
            \A j, k \in DOMAIN edges : SamePair(edges, j, k) => j = k)
    /\ [][(isDirected /\ ~isDirected') =>
            edges' = FilterSeq(edges, {k \in DOMAIN edges :
                                         \A j \in 1..(k - 1) : ~SamePair(edges, j, k)})]_vars

\* an undirected graph to which add-edge has added a second edge
C22_Witness ==
    /\ ~isDirected /\ mode = "add_edge"
    /\ Len(edges) = 2 /\ nextEdgeId = 2
    /\ edges[2].weight = -1

\* the stored edges that lead from u to v: u -> v and, in undirected mode, v -> u
EdgesFromTo(u, v) ==
    {k \in DOMAIN edges :
        \/ edges[k].source = u /\ edges[k].target = v
        \/ ~isDirected /\ edges[k].source = v /\ edges[k].target = u}

(***************************************************************************)
(* C23.  In every reachable graph state, also after Reset Counter was used *)
(* while nodes are live, the adjacency view as the algorithms expand it    *)
(* gives each live node u, for every live node v, exactly one entry        *)
(* resolving to v per stored edge leading from u to v, and no other entry. *)
(***************************************************************************)
C23_AdjacencyByIdentity ==
    \A u \in NodeIds :
        \E view \in {ResolvedNeighbors(VisibleId(u))} :
            /\ \A i \in DOMAIN view : view[i].uniqueId \in NodeIds
            /\ \A v \in NodeIds :
                  Cardinality({i \in DOMAIN view : view[i].uniqueId = v})
                      = Cardinality(EdgesFromTo(u, v))

(***************************************************************************)
(* C24.  The directed flag never changes while the node set is non-empty.  *)
(***************************************************************************)
C24_DirectionFixedWhileNodes ==
    [][isDirected' # isDirected => (Len(nodes) = 0 /\ Len(nodes') = 0)]_vars

\* a graph with nodes and an edge whose direction mode was chosen while it was empty
C24_Witness ==
    /\ isDirected
    /\ Len(nodes) = 2 /\ Len(edges) > 0

(***************************************************************************)
(* C25.  The weighted flag never changes while the node set is non-empty,  *)
(* and so never while an algorithm run is running or paused.               *)
(***************************************************************************)
C25_WeightedFixedWhileNodes ==
    [][isWeighted' # isWeighted =>
          /\ Len(nodes) = 0
          /\ \A a \in Algs : ~RunOf(a).isRunning
          /\ ~kruskal.isRunning]_vars

(***************************************************************************)
(* C26.  While the graph is in unweighted mode every stored edge has       *)
(* weight 1 and every entry of the adjacency view carries weight 1.        *)
(***************************************************************************)
C26_UnweightedMeansWeightOne ==
    ~isWeighted =>
        /\ \A k \in DOMAIN edges : edges[k].weight = 1
        /\ \A id \in DOMAIN getAdjacencyList :
              \A i \in DOMAIN getAdjacencyList[id] : getAdjacencyList[id][i].weight = 1

(***************************************************************************)
(* C27.  While a run is Running or Paused, a step that changes the node    *)
(* list or the edge list (a node or an edge added or deleted, a weight     *)
(* changed) also resets that run: otherwise the step leaves nodes and      *)
(* edges as they were, so that consecutive steps of one run see the same   *)
(* nodes and edges.                                                        *)
(***************************************************************************)
C27_NoEditDuringRun ==
    [][(nodes' # nodes \/ edges' # edges) =>
          /\ \A a \in Algs : RunOf(a).isRunning => RunOf(a)' = IdleOf(a)
          /\ kruskal.isRunning => kruskal' = KruskalIdle]_vars

\* the stored edges in visitedEdges that lead from p to v
VisitedEdgesJoining(r, p, v) ==
    {k \in DOMAIN edges :
        /\ edges[k].id \in r.visitedEdges
        /\ \/ edges[k].source = p /\ edges[k].target = v
           \/ ~isDirected /\ edges[k].source = v /\ edges[k].target = p}

\* visitedNodes, visitedEdges, predecessors and distances of run r form a tree
SearchTree(r) ==
    /\ r.visitedEdges \subseteq {edges[k].id : k \in DOMAIN edges}
    /\ \A v \in r.visitedNodes \ {r.sourceNode} :
          \E p \in {r.predecessors[v]} :
             /\ p # Null /\ p \in r.visitedNodes
             /\ r.distances[v] = r.distances[p] + 1
             /\ Cardinality(VisitedEdgesJoining(r, p, v)) = 1
    /\ Cardinality(r.visitedEdges) = Cardinality(r.visitedNodes) - 1

(***************************************************************************)
(* C28.  At every step of a BFS or DFS run the visited edges are stored    *)
(* edges, every visited node other than the source has a visited           *)
(* predecessor one level above it and exactly one visited edge from that   *)
(* predecessor, so that there is one visited edge less than visited nodes; *)
(* in DFS every stack element above the bottom has the element below it as *)
(* its predecessor.                                                        *)
(***************************************************************************)
C28_SearchTree ==
    /\ bfs.visitedNodes # {} => SearchTree(bfs)
    /\ dfs.visitedNodes # {} =>
          /\ SearchTree(dfs)
          /\ \A i \in 2..Len(dfs.stack) : dfs.predecessors[dfs.stack[i]] = dfs.stack[i - 1]

(***************************************************************************)
(* C29.  A Bellman-Ford run never throws; a run started on a directed      *)
(* graph with at least two nodes and no edges stops with hasNegativeCycle  *)
(* false; and in every stopped run each node that cannot be reached from   *)
(* the source keeps distance Infinity and predecessor null.                *)
(***************************************************************************)
C29_BellmanFordNeverThrows ==
    /\ ~thrown
    /\ (bf.sourceNode # Null /\ isDirected /\ Len(nodes) >= 2 /\ edges = <<>>) =>
          (bf.isRunning \/ ~bf.hasNegativeCycle)
    /\ BellmanFordStopped =>
          \A u \in NodeIds \ Reachable(bf.sourceNode) :
              bf.distances[u] = Infinity /\ bf.predecessors[u] = Null

\* edge a does not come after edge b in the order by (source id, target id)
NotAfter(a, b) ==
    \/ VisibleIdOrZero(a.source) < VisibleIdOrZero(b.source)
    \/ /\ VisibleIdOrZero(a.source) = VisibleIdOrZero(b.source)
       /\ VisibleIdOrZero(a.target) <= VisibleIdOrZero(b.target)

(***************************************************************************)
(* C30.  A Bellman-Ford run walks a fixed edgeOrder, |V| - 1 repetitions   *)
(* of the edges sorted by (source id, target id), one edge per step:       *)
(* currentStep never exceeds the length |E| * (|V| - 1) of edgeOrder, and  *)
(* the edge of step k is edgeOrder[k].                                     *)
(***************************************************************************)
C30_BoundedEdgeSteps ==
    bf.sourceNode # Null =>
        /\ Len(bf.edgeOrder) = Len(edges) * (Len(nodes) - 1)
        /\ \A j \in DOMAIN bf.edgeOrder :
              bf.edgeOrder[j] = bf.edgeOrder[((j - 1) % Len(edges)) + 1]
        /\ \A i, j \in 1..Len(edges) :
              (i < j /\ j <= Len(bf.edgeOrder)) => NotAfter(bf.edgeOrder[i], bf.edgeOrder[j])
        /\ bf.currentStep <= Len(bf.edgeOrder)
        /\ (bf.isRunning /\ bf.currentStep > 0) =>
              bf.currentEdge = bf.edgeOrder[bf.currentStep].id

\* the start and finish times recorded by the Topological-DFS run
RecordedTimes ==
    {tdfs.startTimes[u] : u \in DOMAIN tdfs.startTimes}
        \cup {tdfs.finishTimes[u] : u \in DOMAIN tdfs.finishTimes}

(***************************************************************************)
(* C31.  A Topological-DFS run covers all nodes: a step taken by a running *)
(* run whose stack is empty while unvisited nodes remain starts a new DFS  *)
(* from an unvisited node of lowest visible id at the next clock value;    *)
(* once the run has stopped every node has a startTime and a finishTime    *)
(* with startTime < finishTime, the 2*|V| recorded times are pairwise      *)
(* distinct, and the clock equals 2*|V|.                                   *)
(***************************************************************************)
C31_TimedDFSCoversAllNodes ==
    /\ [][(/\ tdfs.isRunning /\ ~tdfs.isPaused
           /\ tdfs.stack = <<>> /\ NodeIds \ tdfs.visitedNodes # {}
           /\ tdfs' # tdfs /\ tdfs'.isRunning /\ ~tdfs'.isPaused)
          => \E n \in NodeIds \ tdfs.visitedNodes :
                /\ \A m \in NodeIds \ tdfs.visitedNodes : VisibleId(n) <= VisibleId(m)
                /\ tdfs'.stack = <<n>>
                /\ tdfs'.visitedNodes = tdfs.visitedNodes \cup {n}
                /\ tdfs'.time = tdfs.time + 1
                /\ tdfs'.startTimes[n] = tdfs.time + 1]_vars
    /\ [](TimedDFSComplete =>
            /\ DOMAIN tdfs.startTimes = NodeIds
            /\ DOMAIN tdfs.finishTimes = NodeIds
            /\ \A u \in NodeIds : tdfs.startTimes[u] < tdfs.finishTimes[u]
            /\ Cardinality(RecordedTimes) = 2 * Len(nodes)
            /\ tdfs.time = 2 * Len(nodes))

\* a stopped run on three nodes without edges: two restarts from remaining nodes
C31_Witness ==
    TimedDFSComplete /\ Len(nodes) = 3 /\ edges = <<>> /\ tdfs.time = 6

MstComponents == {ReachVia(kruskal.mstEdges, u, Len(nodes)) : u \in NodeIds}

(***************************************************************************)
(* C33.  In every state of a Kruskal run, whatever the pauses, resumes,    *)
(* resets, restarts and timer delays before it: mstEdges contains no       *)
(* cycle, every processed edge left out of mstEdges joins two nodes that   *)
(* mstEdges already connects, and numComponents = |V| - |mstEdges|.        *)
(***************************************************************************)
C33_KruskalForest ==
    (kruskal.isRunning \/ kruskal.isComplete) =>
        /\ Cardinality(MstComponents) = Len(nodes) - Cardinality(kruskal.mstEdges)
        /\ \A i \in DOMAIN edges :
              edges[i].id \in kruskal.visitedEdges \ kruskal.mstEdges =>
                 edges[i].target \in ReachVia(kruskal.mstEdges, edges[i].source, Len(nodes))
        /\ kruskal.numComponents = Len(nodes) - Cardinality(kruskal.mstEdges)

(***************************************************************************)
(* C34.  A start request made while the run of the same algorithm is       *)
(* Running or Paused is ignored: no step of a running, unpaused run starts *)
(* an additional chain of continuations, a paused run gets a new chain     *)
(* only by being resumed, and as long as the run stays running its source  *)
(* is the one it was started from.                                         *)
(***************************************************************************)
C34_RestartIgnored ==
    [][/\ \A a \in Algs :
             /\ (RunOf(a).isRunning /\ ~RunOf(a).isPaused) => timers'[a] <= timers[a]
             /\ (RunOf(a).isRunning /\ RunOf(a).isPaused /\ timers'[a] > timers[a])
                   => ~RunOf(a)'.isPaused
             /\ (RunOf(a).isRunning /\ RunOf(a)'.isRunning)
                   => RunOf(a)'.sourceNode = RunOf(a).sourceNode
       /\ (kruskal.isRunning /\ ~kruskal.isPaused)
             => Len(kruskalTimers') <= Len(kruskalTimers)]_vars

(***************************************************************************)
(* C35.  A started run that is never paused, reset or disturbed, on a      *)
(* graph its start accepted, eventually stops when its timers keep         *)
(* firing: isRunning leads to ~isRunning for each of the seven algorithms. *)
(***************************************************************************)
C35_RunsStop ==
    /\ bfs.isRunning ~> ~bfs.isRunning
    /\ dfs.isRunning ~> ~dfs.isRunning
    /\ tdfs.isRunning ~> ~tdfs.isRunning
    /\ bf.isRunning ~> ~bf.isRunning
    /\ dij.isRunning ~> ~dij.isRunning
    /\ prim.isRunning ~> ~prim.isRunning
    /\ kruskal.isRunning ~> ~kruskal.isRunning

\* queue entry a is not larger than queue entry b: distance, then visible id
EntryNotLarger(a, b) ==
    \/ a[2] < b[2]
    \/ a[2] = b[2] /\ VisibleId(a[1]) <= VisibleId(b[1])

\* this step is a step of the current Dijkstra run: it takes an entry off the
\* queue, and it is neither a reset nor the start of another run
DijkstraStepTaken ==
    /\ dij.sourceNode # Null /\ dij'.sourceNode # Null
    /\ dij'.priorityQueue # dij.priorityQueue
    /\ ~(\E i \in DOMAIN nodes : ClickNodeDijkstra(i))

(***************************************************************************)
(* C36.  Each step of a Dijkstra run takes off the frontier an entry with  *)
(* the smallest tentative distance (ties: lowest visible id).  If the      *)
(* entry's node is already processed, the entry is dropped and distances,  *)
(* predecessors and processedNodes stay as they are; otherwise the node,   *)
(* not processed before, joins processedNodes.  The distance and the       *)
(* predecessor of a processed node never change, and every frontier entry  *)
(* (n, d) has d >= distances[n].                                           *)
(***************************************************************************)
C36_DijkstraFrontier ==
    /\ [][DijkstraStepTaken =>
            /\ \E k \in DOMAIN dij.priorityQueue :
                  \E entry \in {dij.priorityQueue[k]} :
                     /\ \A j \in DOMAIN dij.priorityQueue :
                           EntryNotLarger(entry, dij.priorityQueue[j])
                     /\ IF entry[1] \in dij.processedNodes
                        THEN /\ dij'.distances = dij.distances
                             /\ dij'.predecessors = dij.predecessors
                             /\ dij'.processedNodes = dij.processedNodes
                             /\ Len(dij'.priorityQueue) = Len(dij.priorityQueue) - 1
                        ELSE dij'.processedNodes = dij.processedNodes \cup {entry[1]}
            /\ \A u \in dij.processedNodes :
                  /\ dij'.distances[u] = dij.distances[u]
                  /\ dij'.predecessors[u] = dij.predecessors[u]]_vars
    /\ [](dij.sourceNode # Null =>
            \A k \in DOMAIN dij.priorityQueue :
                dij.priorityQueue[k][2] >= dij.distances[dij.priorityQueue[k][1]])

\* this step takes a candidate off the frontier of the current Prim run
PrimStepTaken ==
    /\ prim.sourceNode # Null /\ prim'.sourceNode # Null
    /\ prim'.priorityQueue # prim.priorityQueue
    /\ ~(\E i \in DOMAIN nodes : ClickNodePrim(i))

(***************************************************************************)
(* C37.  At every step of a Prim run on an undirected weighted graph:      *)
(* mstEdges is a tree spanning exactly processedNodes, totalWeight is the  *)
(* sum of the weights of its edges, every stored edge with exactly one     *)
(* endpoint in processedNodes is in the frontier, no edge id occurs twice  *)
(* in the frontier, and a step that adds no node to processedNodes only    *)
(* removes a candidate: mstEdges, totalWeight and iterationCount stay.     *)
(***************************************************************************)
C37_PrimTree ==
    /\ []((~isDirected /\ prim.sourceNode # Null) =>
            /\ Cardinality(prim.mstEdges) = Cardinality(prim.processedNodes) - 1
            /\ \A u \in prim.processedNodes :
                  ReachVia(prim.mstEdges, u, Len(nodes)) = prim.processedNodes
            /\ prim.totalWeight = TreeWeight(prim.mstEdges)
            /\ \A i \in DOMAIN edges :
                  ((edges[i].source \in prim.processedNodes)
                      # (edges[i].target \in prim.processedNodes))
                     => \E q \in DOMAIN prim.priorityQueue :
                           prim.priorityQueue[q][1] = edges[i].id
            /\ \A p, q \in DOMAIN prim.priorityQueue :
                  prim.priorityQueue[p][1] = prim.priorityQueue[q][1] => p = q)
    /\ [][(~isDirected /\ PrimStepTaken /\ prim'.processedNodes = prim.processedNodes) =>
            /\ Len(prim'.priorityQueue) = Len(prim.priorityQueue) - 1
            /\ prim'.mstEdges = prim.mstEdges
            /\ prim'.totalWeight = prim.totalWeight
            /\ prim'.iterationCount = prim.iterationCount]_vars


(***************************************************************************)
(* The DisjointSet class on its own (lines 133-205): one object, the calls *)
(* of its methods with elements 1..MaxElements in any order.  The object   *)
(* is held where the Kruskal continuations hold theirs, as the one entry   *)
(* of kruskalTimers.                                                       *)
(***************************************************************************)
MaxElements == 3
Elements == 1..MaxElements

\* new DisjointSet(), line 1896, before any makeSet
InitDisjointSet ==
    /\ nodes = <<>> /\ edges = <<>>
    /\ isDirected = FALSE /\ isWeighted = TRUE
    /\ mode = "add_node"
    /\ edgeStart = Null /\ directedEdgeMemory = NoMap
    /\ nextNodeId = 0 /\ nextEdgeId = 0 /\ uniqueIds = 0
    /\ bfs = BfsIdle /\ dfs = DfsIdle /\ tdfs = TimedDfsIdle
    /\ bf = BellmanFordIdle /\ dij = DijkstraIdle
    /\ prim = PrimIdle /\ kruskal = KruskalIdle
    /\ timers = [a \in Algs |-> 0]
    /\ kruskalTimers = <<DsuEmpty>>
    /\ thrown = FALSE
    /\ alerted = "none"

\* makeSet(x), lines 139-142
DisjointSetMakeSet(x) ==
    /\ kruskalTimers' = <<DsuMakeSet(kruskalTimers[1], x)>>
    /\ UNCHANGED <<graphVars, mode, runVars, timers, thrown, alerted>>

\* find(x), lines 144-152
DisjointSetFind(x) ==
    /\ kruskalTimers' = <<DsuFind(kruskalTimers[1], x)>>
    /\ UNCHANGED <<graphVars, mode, runVars, timers, thrown, alerted>>

\* union(x, y), lines 154-171
DisjointSetUnion(x, y) ==
    /\ kruskalTimers' = <<DsuUnion(kruskalTimers[1], x, y)>>
    /\ UNCHANGED <<graphVars, mode, runVars, timers, thrown, alerted>>

\* inSameSet(x, y), lines 173-175
DisjointSetInSameSet(x, y) ==
    /\ kruskalTimers' = <<DsuAfterInSameSet(kruskalTimers[1], x, y)>>
    /\ UNCHANGED <<graphVars, mode, runVars, timers, thrown, alerted>>

\* getComponents(), lines 177-204
DisjointSetGetComponents ==
    /\ kruskalTimers' = <<DsuAfterGetComponents(kruskalTimers[1])>>
    /\ UNCHANGED <<graphVars, mode, runVars, timers, thrown, alerted>>

NextDisjointSet ==
    \/ \E x \in Elements : DisjointSetMakeSet(x)
    \/ \E x \in Elements : DisjointSetFind(x)
    \/ \E x \in Elements : \E y \in Elements : DisjointSetUnion(x, y)
    \/ \E x \in Elements : \E y \in Elements : DisjointSetInSameSet(x, y)
    \/ DisjointSetGetComponents

SpecDisjointSet == InitDisjointSet /\ [][NextDisjointSet]_vars

\* the sets of d: the elements grouped by the root their parent links lead to
DsuSets(d) ==
    {{y \in DOMAIN d.parent : DsuRoot(d.parent, y) = DsuRoot(d.parent, x)} :
        x \in DOMAIN d.parent}

\* the sets of d with every element of S that d has not seen as a singleton
DsuSetsWith(d, S) == DsuSets(d) \cup {{x} : x \in S \ DOMAIN d.parent}

\* the set of P that holds x
SetOf(P, x) == CHOOSE c \in P : x \in c

\* P with the sets of x and y merged into one
SetsMerged(P, x, y) ==
    (P \ {SetOf(P, x), SetOf(P, y)}) \cup {SetOf(P, x) \cup SetOf(P, y)}

\* what find, union, inSameSet and getComponents do to the sets and what
\* they answer, for the step from d to d2
DisjointSetCallsKeepSets(d, d2) ==
    /\ \A x \in Elements : DisjointSetFind(x) => DsuSets(d2) = DsuSetsWith(d, {x})
    /\ \A x \in Elements : \A y \in Elements :
          DisjointSetUnion(x, y) =>
              /\ DsuSets(d2) = SetsMerged(DsuSetsWith(d, {x, y}), x, y)
              /\ DsuUnionResult(d, x, y) <=>
                     SetOf(DsuSetsWith(d, {x, y}), x) # SetOf(DsuSetsWith(d, {x, y}), y)
    /\ \A x \in Elements : \A y \in Elements :
          DisjointSetInSameSet(x, y) =>
              /\ DsuSets(d2) = DsuSetsWith(d, {x, y})
              /\ DsuInSameSetResult(d, x, y) <=>
                     SetOf(DsuSetsWith(d, {x, y}), x) = SetOf(DsuSetsWith(d, {x, y}), y)
    /\ DisjointSetGetComponents =>
          /\ DsuSets(d2) = DsuSets(d)
          /\ DsuNumComponents(d) = Cardinality(DsuSets(d))
          /\ DOMAIN DsuNodeToComponent(d) = DOMAIN d.parent
          /\ \A x \in DOMAIN d.parent : \A y \in DOMAIN d.parent :
                DsuNodeToComponent(d)[x] = DsuNodeToComponent(d)[y]
                    <=> SetOf(DsuSets(d), x) = SetOf(DsuSets(d), y)

\* C38: over every sequence of makeSet, find, union and inSameSet calls the
\* sets of the DisjointSet are the classes connected by the unions made so
\* far: makeSet and find only add a singleton for an element not seen
\* before, union merges the sets of its two elements and returns true
\* exactly when they were different, inSameSet answers whether the two
\* elements are in one set, and getComponents counts the sets and gives two
\* elements one component number exactly when they are in one set.
C38_DisjointSetPartition ==
    [][ /\ DisjointSetCallsKeepSets(kruskalTimers[1], kruskalTimers'[1])
        /\ \A x \in Elements :
              DisjointSetMakeSet(x) =>
                  DsuSets(kruskalTimers'[1]) = DsuSetsWith(kruskalTimers[1], {x}) ]_vars

\* C38 with makeSet called on elements the DisjointSet has not seen: the
\* same statement, and a makeSet of an element already there leaves it as
\* its own parent with rank 0.
C38_DisjointSetPartitionFreshMakeSet ==
    [][ /\ DisjointSetCallsKeepSets(kruskalTimers[1], kruskalTimers'[1])
        /\ \A x \in Elements :
              DisjointSetMakeSet(x) =>
                  /\ x \notin DOMAIN kruskalTimers[1].parent =>
                        DsuSets(kruskalTimers'[1]) = DsuSetsWith(kruskalTimers[1], {x})
                  /\ kruskalTimers'[1].parent[x] = x
                  /\ kruskalTimers'[1].rank[x] = 0 ]_vars

\* all the elements in one set that a chain of two parent links holds together
C38_Witness ==
    /\ Len(kruskalTimers) = 1
    /\ DOMAIN kruskalTimers[1].parent = Elements
    /\ Cardinality(DsuSets(kruskalTimers[1])) = 1
    /\ \E x \in Elements :
          kruskalTimers[1].parent[kruskalTimers[1].parent[x]] # kruskalTimers[1].parent[x]


(***************************************************************************)
(* getAdjacencyMatrix (lines 557-582): a nodes.length x nodes.length array *)
(* of zeros that every edge writes a 1 into, at the visible ids of its     *)
(* ends.                                                                   *)
(***************************************************************************)
\* idMapping[u], lines 559-562: the visible id of the node with uniqueId u,
\* Null for undefined
IdMapping(u) ==
    IF \E i \in DOMAIN nodes : nodes[i].uniqueId = u
    THEN nodes[CHOOSE i \in DOMAIN nodes :
                  /\ nodes[i].uniqueId = u
                  /\ \A k \in DOMAIN nodes : nodes[k].uniqueId = u => k <= i].id
    ELSE Null

\* the cells matrix[row][col] = 1 is executed for, lines 569-579
MatrixWrites ==
    {<<IdMapping(edges[j].source), IdMapping(edges[j].target)>> : j \in DOMAIN edges}
    \cup (IF isDirected THEN {}
          ELSE {<<IdMapping(edges[j].target), IdMapping(edges[j].source)>> :
                   j \in DOMAIN edges})

\* the indices of the rows, and of the columns of a row as it is created,
\* lines 565-566
MatrixIndices == 0..(Len(nodes) - 1)

\* a write to a row the matrix does not have: matrix[row] is undefined and
\* the assignment throws a TypeError, lines 573 and 577
getAdjacencyMatrixThrows == \E w \in MatrixWrites : w[1] \notin MatrixIndices

\* a write to a column past the end of an existing row: the row grows and
\* the matrix is no longer square, lines 573 and 577
MatrixWritesOutside ==
    \E w \in MatrixWrites : w[1] \in MatrixIndices /\ w[2] \notin MatrixIndices

\* matrix[row][col] of the value returned, Null for undefined
MatrixCell(row, col) ==
    IF <<row, col>> \in MatrixWrites THEN 1
    ELSE IF row \in MatrixIndices /\ col \in MatrixIndices THEN 0
    ELSE Null

\* C39: in every graph reached by adding and deleting nodes and edges,
\* getAdjacencyMatrix returns without throwing, writes no cell outside the
\* |V| x |V| matrix, and the cell of two nodes is 1 exactly when a stored
\* edge goes from the first to the second (or, undirected, joins them in
\* either orientation), also after a deletion has left visible ids that are
\* not 0..|V|-1.
C39_AdjacencyMatrix ==
    /\ ~getAdjacencyMatrixThrows
    /\ ~MatrixWritesOutside
    /\ \A a \in DOMAIN nodes : \A b \in DOMAIN nodes :
          MatrixCell(nodes[a].id, nodes[b].id) =
              IF \E j \in DOMAIN edges :
                     \/ edges[j].source = nodes[a].uniqueId
                            /\ edges[j].target = nodes[b].uniqueId
                     \/ ~isDirected /\ edges[j].source = nodes[b].uniqueId
                                    /\ edges[j].target = nodes[a].uniqueId
              THEN 1 ELSE 0

====
